---- MODULE Spec2Model ----
(***************************************************************************)
(* The batch-processor script: its admission-control layer (the            *)
(* ConcurrencyLimiter, the UploadLimiter, the RateLimiter and the          *)
(* SimpleCircuitBreaker) and the processing of one job by processPrompt.   *)
(*                                                                         *)
(* One step of the model is one synchronous run of JavaScript between two  *)
(* suspension points (an await, a timer, a network completion).  A promise *)
(* resolved by resolve() resumes its awaiter in a later microtask; the     *)
(* microtask queue is first-in first-out, so woken awaiters resume in the  *)
(* order they were woken, but other jobs (a new run() call, a completion)  *)
(* may run between the wake-up and the resumption.                         *)
(***************************************************************************)
EXTENDS Integers, Sequences, FiniteSets, TLC

\* ------------------------------------------------------------------ bounds

NumTasks == 4
MaxLimit == 2
NumUploads == 5
MaxFeeds == 6
MaxHistoryFeeds == 12
NumGateTasks == 3
NumGateUploads == 3
NumChildren == 4
batchSize == 2
NumRecords == 3
MaxTally == 7
MaxRunTicks == 1
MaxBreaks == 3
MaxTicks == 4
NumAcquires == 11
MaxRateTicks == 2
MaxPipelineTicks == 3

Tasks == 1..NumTasks

Uploads == 1..NumUploads

Acquires == 1..NumAcquires

Children == 1..NumChildren

Records == 1..NumRecords

\* ------------------------------------------------------------------ state

VARIABLES
    concurrencyLimiter, \* the ConcurrencyLimiter object: max, running, queue, totalExecuted
    runPc,              \* position of each run(fn) call
    runResumes,         \* run() calls whose wait promise is resolved, in wake-up order
    startOrder,         \* history: the order in which the tasks began executing
    waited,             \* history: the run() calls that had to wait at least once
    uploadLimiter,      \* the UploadLimiter object, with the fields of its constructor
    upPc,               \* position of each wrapFetch(url, options) call
    upResumes,          \* wrapFetch calls with a continuation in the microtask queue, in order
    timeout,            \* const timeout of each call (ms)
    slotReleased,       \* let slotReleased of each call
    timerFired,         \* history: the callback of uploadTimeoutHandle ran for the call
    releases,           \* history: how often each call ran releaseUploadSlot()
    recorded,           \* history: the samples passed to recordUploadTime, in order
    now,                \* the value Date.now() returns (ms since the script started)
    circuitBreaker,     \* the SimpleCircuitBreaker object, with the fields of its constructor
    canProceedResult,   \* the value the latest canProceed() returned: <<>> before any call
    lastCall,           \* history: the method of circuitBreaker called latest
    geminiLimiter,      \* the RateLimiter object; tokens is held in units of 1/60000 token
    acqPc,              \* position of each acquire() call
    wakeAt,             \* the time the timer of a sleeping acquire() call is set for
    credited,           \* history: the tokens added by line 127 so far (1/60000 token)
    genConfig,          \* genConfig of the run: enableVideo, geminiApiKey (set or not)
    promptRecord,       \* the record of the processPrompt call
    pp,                 \* the processPrompt call: its position, its locals, and the
                        \* history of what it has done so far
    progressTracker,    \* the ProgressTracker object: totalPrompts and the three counters
    breakerBefore,      \* history: circuitBreaker as the processPrompt call found it
    processingState,    \* server.js: the processingState object (isRunning, error)
    processor,          \* server.js: the state of each child process spawned
    backlog,            \* the records of the job store that match the page filter
    main                \* main(): its position in the paging loop, the page, the
                        \* processPrompt call of each record of the page, the totals

runVars == <<concurrencyLimiter, runPc, runResumes, startOrder, waited>>

uploadVars == <<uploadLimiter, upPc, upResumes, timeout, slotReleased, timerFired,
                releases, recorded>>

breakerVars == <<circuitBreaker, canProceedResult, lastCall>>

\* what the calls of the two admission limiters never touch
rateVars == <<geminiLimiter, acqPc, wakeAt, credited>>

jobVars == <<genConfig, promptRecord, pp, progressTracker, breakerBefore>>

serverVars == <<processingState, processor>>

driverVars == <<backlog, main>>

otherVars == <<now, breakerVars, rateVars, jobVars, serverVars, driverVars>>

vars == <<concurrencyLimiter, runPc, runResumes, startOrder, waited,
          uploadLimiter, upPc, upResumes, timeout, slotReleased, timerFired,
          releases, recorded, now, circuitBreaker, canProceedResult, lastCall,
          geminiLimiter, acqPc, wakeAt, credited,
          genConfig, promptRecord, pp, progressTracker, breakerBefore,
          processingState, processor, backlog, main>>

\* ------------------------------------------------------------------ ConcurrencyLimiter

\* constructor(maxConcurrent)
NewConcurrencyLimiter(maxConcurrent) ==
    [max |-> maxConcurrent, running |-> 0, queue |-> <<>>, totalExecuted |-> 0]

\* the condition of the wait loop, with > for >=
MustWaitOffByOne(cl) == cl.running > cl.max

\* while (this.running >= this.max)
MustWait(cl) == cl.running >= cl.max

\* the finally block that forgets to wake the next waiter
FinallyNoWake(cl) ==
    [limiter |-> [cl EXCEPT !.running = cl.running - 1,
                            !.queue = IF cl.queue = <<>> THEN <<>> ELSE Tail(cl.queue)],
     woken   |-> <<>>]

\* finally { this.running--; const resolve = this.queue.shift(); if (resolve) resolve(); }
\* The result is the limiter after the block and the waiter it woke (if any).
Finally(cl) ==
    [limiter |-> [cl EXCEPT !.running = cl.running - 1,
                            !.queue = IF cl.queue = <<>> THEN <<>> ELSE Tail(cl.queue)],
     woken   |-> IF cl.queue = <<>> THEN <<>> ELSE <<Head(cl.queue)>>]

\* The wait loop and the increment of run(), entered by a new call or re-entered by
\* a resumed waiter: either the call parks its resolver at the tail of the queue, or
\* it takes a slot and starts fn().
EnterRun(t) ==
    IF MustWait(concurrencyLimiter)
    THEN /\ concurrencyLimiter' =
                [concurrencyLimiter EXCEPT !.queue = Append(concurrencyLimiter.queue, t)]
         /\ runPc' = [runPc EXCEPT ![t] = "waiting"]
         /\ waited' = waited \cup {t}
         /\ UNCHANGED startOrder
    ELSE /\ concurrencyLimiter' =
                [concurrencyLimiter EXCEPT !.running = concurrencyLimiter.running + 1]
         /\ runPc' = [runPc EXCEPT ![t] = "executing"]
         /\ startOrder' = Append(startOrder, t)
         /\ UNCHANGED waited

\* run(fn) is called.  The calls are numbered in the order they are made: call t is
\* made once the calls 1..t-1 have been made.
Run(t) ==
    /\ runPc[t] = "idle"
    /\ \A s \in Tasks : s < t => runPc[s] # "idle"
    /\ EnterRun(t)
    /\ UNCHANGED <<runResumes, uploadVars, otherVars>>

\* the oldest woken waiter resumes after its await and re-tests the loop condition
ResumeRun ==
    /\ runResumes # <<>>
    /\ runPc[Head(runResumes)] = "woken"
    /\ runResumes' = Tail(runResumes)
    /\ EnterRun(Head(runResumes))
    /\ UNCHANGED <<uploadVars, otherVars>>

\* the task's failure path without the finally block: the slot is never given back
TaskThrowsNoFinally(t) ==
    /\ runPc[t] = "executing"
    /\ runPc' = [runPc EXCEPT ![t] = "failed"]
    /\ UNCHANGED <<concurrencyLimiter, runResumes, startOrder, waited, uploadVars, otherVars>>

\* fn() resolves: totalExecuted++, then the finally block
TaskReturns(t) ==
    /\ runPc[t] = "executing"
    /\ LET counted == [concurrencyLimiter EXCEPT
                           !.totalExecuted = concurrencyLimiter.totalExecuted + 1]
           f == Finally(counted)
       IN /\ concurrencyLimiter' = f.limiter
          /\ runResumes' = runResumes \o f.woken
          /\ runPc' = [u \in Tasks |->
                          IF u = t THEN "done"
                          ELSE IF f.woken = <<u>> THEN "woken"
                          ELSE runPc[u]]
    /\ UNCHANGED <<startOrder, waited, uploadVars, otherVars>>

\* fn() rejects: the finally block alone, the error propagates to the caller
TaskThrows(t) ==
    /\ runPc[t] = "executing"
    /\ LET f == Finally(concurrencyLimiter)
       IN /\ concurrencyLimiter' = f.limiter
          /\ runResumes' = runResumes \o f.woken
          /\ runPc' = [u \in Tasks |->
                          IF u = t THEN "failed"
                          ELSE IF f.woken = <<u>> THEN "woken"
                          ELSE runPc[u]]
    /\ UNCHANGED <<startOrder, waited, uploadVars, otherVars>>

\* ------------------------------------------------------------------ UploadLimiter

SlowThresholdMs == 20000
RecoverThresholdMs == 15000
MaxTimeoutMs == 60000
HistorySize == 10

\* The constructor arguments (maxUpload, baseTimeoutMs, fallbackConcurrency) the model
\* builds the limiter with: those of the run, new UploadLimiter(3, 10000, 2), and one
\* with a base timeout above the slow-mode threshold and a lower fallback.
UploadConfigs == {<<3, 10000, 2>>, <<3, 30000, 1>>}

\* The time (ms) a fetch takes when it does not end exactly at its timeout.
Durations == {30000}

\* The durations (ms) fed to recordUploadTime directly: below, at and above the two
\* marks, and far above them.
SampleValues == {14999, 15000, 20000, 30000, 70000}

Min(a, b) == IF a < b THEN a ELSE b

Max(a, b) == IF a > b THEN a ELSE b

RECURSIVE Sum(_)
\* reduce((a, b) => a + b, 0)
Sum(seq) == IF seq = <<>> THEN 0 ELSE Head(seq) + Sum(Tail(seq))

\* slice(-n)
LastN(seq, n) ==
    IF Len(seq) <= n THEN seq ELSE SubSeq(seq, Len(seq) - n + 1, Len(seq))

\* constructor(maxUpload, baseTimeoutMs, fallbackConcurrency)
NewUploadLimiter(maxUpload, baseTimeoutMs, fallbackConcurrency) ==
    [max |-> maxUpload, baseTimeout |-> baseTimeoutMs,
     fallbackConcurrency |-> fallbackConcurrency,
     uploading |-> 0, queue |-> <<>>, recentUploadTimes |-> <<>>,
     totalUploads |-> 0, slowConnectionDetected |-> FALSE]

\* the condition of the wait loop, with > for >=
UploadMustWaitOffByOne(ul) == ul.uploading > ul.max

\* acquireUploadSlot(): while (this.uploading >= this.max)
UploadMustWait(ul) == ul.uploading >= ul.max

\* getAdaptiveTimeout().  avg * 2 is 2 * sum / length, a quotient without remainder
\* for every history the specifications below reach.
getAdaptiveTimeout(ul) ==
    IF Len(ul.recentUploadTimes) < 3
    THEN ul.baseTimeout
    ELSE LET last5 == LastN(ul.recentUploadTimes, 5)
             avg2 == (2 * Sum(last5)) \div Len(last5)
         IN Max(ul.baseTimeout, Min(avg2, MaxTimeoutMs))

\* a history that drops the sample just pushed when it overflows
keepOldest(times) ==
    IF Len(times) > HistorySize THEN SubSeq(times, 1, HistorySize) ELSE times

\* if (this.recentUploadTimes.length > 10) this.recentUploadTimes.shift()
keepRecent(times) == IF Len(times) > HistorySize THEN Tail(times) ELSE times

\* The body of recordUploadTime(durationMs) with its two marks as parameters.
\* avg = sum / 3, so avg > slowMark is sum > 3 * slowMark and avg < recoverMark is
\* sum < 3 * recoverMark.
recordWithMarks(ul, durationMs, slowMark, recoverMark) ==
    LET pushed == Append(ul.recentUploadTimes, durationMs)
        times == keepRecent(pushed)
        sum3 == Sum(LastN(times, 3))
        kept == [ul EXCEPT !.recentUploadTimes = times]
    IN IF Len(times) >= 3
       THEN IF sum3 > 3 * slowMark /\ ~ul.slowConnectionDetected
            THEN [kept EXCEPT !.slowConnectionDetected = TRUE,
                              !.max = ul.fallbackConcurrency]
            ELSE IF sum3 < 3 * recoverMark /\ ul.slowConnectionDetected
            THEN [kept EXCEPT !.slowConnectionDetected = FALSE,
                              !.max = ul.fallbackConcurrency + 1]
            ELSE kept
       ELSE kept

\* recordUploadTime with a high-water mark of 25 s
recordUploadTimeHighMark25(ul, durationMs) ==
    recordWithMarks(ul, durationMs, 25000, RecoverThresholdMs)

\* recordUploadTime with a low-water mark of 16 s
recordUploadTimeLowMark16(ul, durationMs) ==
    recordWithMarks(ul, durationMs, SlowThresholdMs, 16000)

\* recordUploadTime that tests the low-water mark to enter slow mode as well
recordUploadTimeOneMark(ul, durationMs) ==
    recordWithMarks(ul, durationMs, RecoverThresholdMs, RecoverThresholdMs)

\* recordUploadTime(durationMs): avg > 20000 enters slow mode, avg < 15000 leaves it
recordUploadTime(ul, durationMs) ==
    recordWithMarks(ul, durationMs, SlowThresholdMs, RecoverThresholdMs)

\* releaseUploadSlot(): the limiter after it and the waiter it woke (if any)
releaseUploadSlot(ul) ==
    [limiter |-> [ul EXCEPT !.uploading = ul.uploading - 1,
                            !.queue = IF ul.queue = <<>> THEN <<>> ELSE Tail(ul.queue)],
     woken   |-> IF ul.queue = <<>> THEN <<>> ELSE <<Head(ul.queue)>>]

\* the release without the test of slotReleased
ReleaseUnguarded(ul, released) ==
    LET r == releaseUploadSlot(ul)
    IN [limiter |-> [r.limiter EXCEPT !.totalUploads = r.limiter.totalUploads + 1],
        woken   |-> r.woken,
        ran     |-> 1]

\* if (!slotReleased) { slotReleased = true; this.releaseUploadSlot(); this.totalUploads++; }
\* as it stands in the timer callback and on both paths of the try.
ReleaseOnce(ul, released) ==
    IF released
    THEN [limiter |-> ul, woken |-> <<>>, ran |-> 0]
    ELSE LET r == releaseUploadSlot(ul)
         IN [limiter |-> [r.limiter EXCEPT !.totalUploads = r.limiter.totalUploads + 1],
             woken   |-> r.woken,
             ran     |-> 1]

\* The effect of a guarded release by call u on the calls: u's flag is set, the
\* woken waiter is queued for resumption.
AfterRelease(u, r, pcOfU) ==
    /\ slotReleased' = [slotReleased EXCEPT ![u] = TRUE]
    /\ releases' = [releases EXCEPT ![u] = releases[u] + r.ran]
    /\ upResumes' = upResumes \o r.woken
    /\ upPc' = [v \in Uploads |->
                   IF v = u THEN pcOfU
                   ELSE IF r.woken = <<v>> THEN "woken"
                   ELSE upPc[v]]

\* The loop and the increment of acquireUploadSlot(), entered by a new call or
\* re-entered by a resumed waiter.  Having the slot, the call returns to wrapFetch,
\* which continues after its await in a later microtask.
EnterAcquire(u) ==
    IF UploadMustWait(uploadLimiter)
    THEN /\ uploadLimiter' =
                [uploadLimiter EXCEPT !.queue = Append(uploadLimiter.queue, u)]
         /\ upPc' = [upPc EXCEPT ![u] = "waiting"]
    ELSE /\ uploadLimiter' =
                [uploadLimiter EXCEPT !.uploading = uploadLimiter.uploading + 1]
         /\ upPc' = [upPc EXCEPT ![u] = "acquired"]

\* wrapFetch(url, options) is called; the calls are numbered in the order they are made
WrapFetch(u) ==
    /\ upPc[u] = "idle"
    /\ \A v \in Uploads : v < u => upPc[v] # "idle"
    /\ EnterAcquire(u)
    /\ upResumes' = IF UploadMustWait(uploadLimiter) THEN upResumes
                    ELSE Append(upResumes, u)
    /\ UNCHANGED <<timeout, slotReleased, timerFired, releases, recorded, runVars, otherVars>>

\* the oldest woken waiter resumes inside acquireUploadSlot() and re-tests the loop
ResumeAcquire ==
    /\ upResumes # <<>>
    /\ upPc[Head(upResumes)] = "woken"
    /\ EnterAcquire(Head(upResumes))
    /\ upResumes' = IF UploadMustWait(uploadLimiter) THEN Tail(upResumes)
                    ELSE Append(Tail(upResumes), Head(upResumes))
    /\ UNCHANGED <<timeout, slotReleased, timerFired, releases, recorded, runVars, otherVars>>

\* wrapFetch continues with the slot: startTime, timeout, slotReleased = false,
\* setTimeout(..., timeout), fetch(url, options) is issued
StartFetch ==
    /\ upResumes # <<>>
    /\ upPc[Head(upResumes)] = "acquired"
    /\ LET u == Head(upResumes)
       IN /\ timeout' = [timeout EXCEPT ![u] = getAdaptiveTimeout(uploadLimiter)]
          /\ slotReleased' = [slotReleased EXCEPT ![u] = FALSE]
          /\ timerFired' = [timerFired EXCEPT ![u] = FALSE]
          /\ upPc' = [upPc EXCEPT ![u] = "fetching"]
    /\ upResumes' = Tail(upResumes)
    /\ UNCHANGED <<uploadLimiter, releases, recorded, runVars, otherVars>>

\* The callback of setTimeout runs, timeout ms after the fetch was issued.  Both
\* paths of the try call clearTimeout first, so it runs only while the fetch is pending.
TimerFires(u) ==
    /\ upPc[u] = "fetching"
    /\ ~timerFired[u]
    /\ timerFired' = [timerFired EXCEPT ![u] = TRUE]
    /\ LET r == ReleaseOnce(uploadLimiter, slotReleased[u])
       IN /\ uploadLimiter' = r.limiter
          /\ AfterRelease(u, r, "fetching")
    /\ UNCHANGED <<timeout, recorded, runVars, otherVars>>

\* fetch resolves after d ms: clearTimeout (the call's locals are then out of use), the guarded release, then
\* recordUploadTime(Math.min(uploadDuration, timeout)).  The timer has fired only if
\* the fetch took at least timeout ms.
FetchResolves(u) ==
    /\ upPc[u] = "fetching"
    /\ \E d \in Durations \cup {timeout[u]} :
          /\ IF timerFired[u] THEN d >= timeout[u] ELSE d <= timeout[u]
          /\ LET r == ReleaseOnce(uploadLimiter, slotReleased[u])
                 sample == Min(d, timeout[u])
             IN /\ uploadLimiter' = recordUploadTime(r.limiter, sample)
                /\ recorded' = Append(recorded, sample)
                /\ AfterRelease(u, r, "done")
    /\ timeout' = [timeout EXCEPT ![u] = 0]
    /\ UNCHANGED <<timerFired, runVars, otherVars>>

\* fetch rejects: clearTimeout, the guarded release, the error is rethrown
FetchRejects(u) ==
    /\ upPc[u] = "fetching"
    /\ LET r == ReleaseOnce(uploadLimiter, slotReleased[u])
       IN /\ uploadLimiter' = r.limiter
          /\ AfterRelease(u, r, "failed")
    /\ timeout' = [timeout EXCEPT ![u] = 0]
    /\ UNCHANGED <<timerFired, recorded, runVars, otherVars>>

\* recordUploadTime(durationMs) is called with a synthetic duration
RecordUploadTime(d, maxFeeds) ==
    /\ Len(recorded) < maxFeeds
    /\ uploadLimiter' = recordUploadTime(uploadLimiter, d)
    /\ recorded' = Append(recorded, d)
    /\ UNCHANGED <<upPc, upResumes, timeout, slotReleased, timerFired, releases, runVars, otherVars>>

\* ------------------------------------------------------------------ SimpleCircuitBreaker

\* circuitBreaker = new SimpleCircuitBreaker(5, 60000), and a second configuration
BreakerConfigs == {<<5, 60000>>, <<2, 30000>>}

\* the steps by which the clock advances between two calls of the breaker (ms)
BreakerTicks == {30000}

\* constructor(threshold, cooldownMs); lastFailure is <<>> for null, <<t>> for a time
NewCircuitBreaker(threshold, cooldownMs) ==
    [failures |-> 0, lastFailure |-> <<>>, threshold |-> threshold,
     cooldownMs |-> cooldownMs, totalBreaks |-> 0]

\* the number this.lastFailure stands for in Date.now() - this.lastFailure (null is 0)
ToNumber(lastFailure) == IF lastFailure = <<>> THEN 0 ELSE lastFailure[1]

\* canProceed() that lets a call through as soon as the cooldown is reached
canProceedAtCooldown(cb, t) ==
    IF cb.failures < cb.threshold
    THEN [breaker |-> cb, result |-> TRUE]
    ELSE IF t - ToNumber(cb.lastFailure) >= cb.cooldownMs
         THEN [breaker |-> [cb EXCEPT !.failures = 0], result |-> TRUE]
         ELSE [breaker |-> cb, result |-> FALSE]

\* canProceed() that lets a call through after the cooldown but keeps the counter
canProceedNoReset(cb, t) ==
    IF cb.failures < cb.threshold
    THEN [breaker |-> cb, result |-> TRUE]
    ELSE IF t - ToNumber(cb.lastFailure) > cb.cooldownMs
         THEN [breaker |-> cb, result |-> TRUE]
         ELSE [breaker |-> cb, result |-> FALSE]

\* canProceed() at time t: the breaker after the call and the value returned
canProceed(cb, t) ==
    IF cb.failures < cb.threshold
    THEN [breaker |-> cb, result |-> TRUE]
    ELSE IF t - ToNumber(cb.lastFailure) > cb.cooldownMs
         THEN [breaker |-> [cb EXCEPT !.failures = 0], result |-> TRUE]
         ELSE [breaker |-> cb, result |-> FALSE]

\* recordFailure() at time t
recordFailure(cb, t) ==
    LET failed == [cb EXCEPT !.failures = cb.failures + 1, !.lastFailure = <<t>>]
    IN IF failed.failures >= failed.threshold
       THEN [failed EXCEPT !.totalBreaks = failed.totalBreaks + 1]
       ELSE failed

\* recordSuccess() that takes one failure off the counter
recordSuccessDecrement(cb) ==
    IF cb.failures > 0 THEN [cb EXCEPT !.failures = cb.failures - 1] ELSE cb

\* recordSuccess()
recordSuccess(cb) ==
    IF cb.failures > 0 THEN [cb EXCEPT !.failures = 0] ELSE cb

\* getStats().isOpen
isOpen(cb) == cb.failures >= cb.threshold

\* circuitBreaker.canProceed() is called
CanProceed ==
    /\ LET r == canProceed(circuitBreaker, now)
       IN /\ circuitBreaker' = r.breaker
          /\ canProceedResult' = <<r.result>>
    /\ lastCall' = "canProceed"
    /\ UNCHANGED <<now, rateVars, jobVars, runVars, uploadVars,
                   serverVars, driverVars>>

\* circuitBreaker.recordFailure() is called
RecordFailure ==
    /\ circuitBreaker.totalBreaks < MaxBreaks
    /\ circuitBreaker' = recordFailure(circuitBreaker, now)
    /\ lastCall' = "recordFailure"
    /\ UNCHANGED <<now, canProceedResult, rateVars, jobVars, runVars, uploadVars,
                   serverVars, driverVars>>

\* circuitBreaker.recordSuccess() is called
RecordSuccess ==
    /\ circuitBreaker' = recordSuccess(circuitBreaker)
    /\ lastCall' = "recordSuccess"
    /\ UNCHANGED <<now, canProceedResult, rateVars, jobVars, runVars, uploadVars,
                   serverVars, driverVars>>

\* d milliseconds pass with no code running, up to the horizon of the run
Tick(d, horizon) ==
    /\ now + d <= horizon
    /\ now' = now + d
    /\ UNCHANGED <<breakerVars, rateVars, jobVars, runVars, uploadVars,
                   serverVars, driverVars>>

\* ------------------------------------------------------------------ RateLimiter

\* the 60000 ms of a minute (lines 126 and 140).  The model holds this.tokens in units
\* of 1/60000 token, so that (elapsed / 60000) * rpm is the integer elapsed * rpm and
\* one token is TokenUnit.
TokenUnit == 60000

\* if (elapsed >= 1000) this.lastRefill = now
RefillStepMs == 1000

\* geminiLimiter = new RateLimiter(10), and a smaller capacity
RateCapacities == {10, 6}

\* the steps by which the clock advances between two steps of acquire() (ms)
RateTicks == {500, 6000}

\* constructor(requestsPerMinute) at time t
NewRateLimiter(requestsPerMinute, t) ==
    [rpm |-> requestsPerMinute, tokens |-> requestsPerMinute * TokenUnit,
     lastRefill |-> t, totalRequests |-> 0, totalWaitTime |-> 0]

\* the refill without the cap of Math.min
refillNoCap(rl, t) ==
    LET elapsed == t - rl.lastRefill
    IN [rl EXCEPT !.tokens = rl.tokens + elapsed * rl.rpm,
                  !.lastRefill = IF elapsed >= RefillStepMs THEN t ELSE rl.lastRefill]

\* lines 122-131 of acquire() at time t: the tokens are topped up for the time since
\* lastRefill, and lastRefill moves only when that time is at least a second
refill(rl, t) ==
    LET elapsed == t - rl.lastRefill
        tokensToAdd == elapsed * rl.rpm
    IN [rl EXCEPT !.tokens = Min(rl.rpm * TokenUnit, rl.tokens + tokensToAdd),
                  !.lastRefill = IF elapsed >= RefillStepMs THEN t ELSE rl.lastRefill]

\* the wait without the division by this.rpm
waitTimeOfAMinute(rl) == TokenUnit - rl.tokens

\* const waitTime = ((1 - this.tokens) / this.rpm) * 60000
waitTime(rl) == (TokenUnit - rl.tokens) \div rl.rpm

\* acquire() at time t, up to its return or its await: the limiter it leaves, whether
\* the call has to sleep and for how long, and the tokens line 127 added
acquire(rl, t) ==
    LET refilled == refill(rl, t)
    IN IF refilled.tokens >= TokenUnit
       THEN [limiter  |-> [refilled EXCEPT !.tokens = refilled.tokens - TokenUnit,
                                           !.totalRequests = refilled.totalRequests + 1],
             sleeps   |-> FALSE,
             waitTime |-> 0,
             added    |-> refilled.tokens - rl.tokens]
       ELSE [limiter  |-> [refilled EXCEPT !.totalWaitTime =
                                               refilled.totalWaitTime + waitTime(refilled)],
             sleeps   |-> TRUE,
             waitTime |-> waitTime(refilled),
             added    |-> refilled.tokens - rl.tokens]

\* acquire() after await sleep(waitTime): this.tokens = 0; this.totalRequests++
afterSleep(rl) == [rl EXCEPT !.tokens = 0, !.totalRequests = rl.totalRequests + 1]

\* acquire() is called.  The calls are numbered in the order they are made.  The call
\* either takes a token and returns, or starts to sleep for waitTime.
Acquire(a) ==
    /\ acqPc[a] = "idle"
    /\ \A b \in Acquires : b < a => acqPc[b] # "idle"
    /\ LET r == acquire(geminiLimiter, now)
       IN /\ geminiLimiter' = r.limiter
          /\ credited' = credited + r.added
          /\ acqPc' = [acqPc EXCEPT ![a] = IF r.sleeps THEN "sleeping" ELSE "done"]
          /\ wakeAt' = [wakeAt EXCEPT ![a] = IF r.sleeps THEN now + r.waitTime ELSE 0]
    /\ UNCHANGED <<now, breakerVars, jobVars, runVars, uploadVars,
                   serverVars, driverVars>>

\* the timer of sleep(waitTime) has run out (a timer never fires early, it may fire
\* late): this.tokens = 0; this.totalRequests++
WakeAcquire(a) ==
    /\ acqPc[a] = "sleeping"
    /\ now >= wakeAt[a]
    /\ geminiLimiter' = afterSleep(geminiLimiter)
    /\ acqPc' = [acqPc EXCEPT ![a] = "done"]
    /\ wakeAt' = [wakeAt EXCEPT ![a] = 0]
    /\ UNCHANGED <<now, credited, breakerVars, jobVars, runVars, uploadVars,
                   serverVars, driverVars>>

\* ------------------------------------------------------------------ processPrompt: errors

\* An error message is the sequence of its words (punctuation left out), a word
\* counting as one character where the message is cut; includes() looks for a phrase,
\* a sequence of adjacent words.

\* HTTP statuses a provider or the store answers with when it fails
Statuses == {"400", "429", "500", "502", "503", "504", "524"}

\* errorText.substring(0, 200) of an error response that is 200 characters or more
LongErrorText == [i \in 1..200 |-> "x"]

\* the texts of an error response (errorText) a status comes with
ErrorTexts(status) ==
    CASE status = "400" -> {<<>>, LongErrorText}
      [] status = "429" -> {<<"Too", "Many", "Requests">>}
      [] status = "504" -> {<<>>, <<"Gateway", "Timeout">>}
      [] OTHER -> {<<>>}

\* the messages made of a prefix, a status of the set and one of its texts
StatusErrors(prefix, statuses) ==
    UNION {{prefix \o <<status>> \o text : text \in ErrorTexts(status)} :
               status \in statuses}

\* the messages fetch() rejects with
FetchErrors == {<<"network", "timeout">>, <<"Too", "many", "subrequests">>,
                <<"socket", "hang", "up">>}

\* the messages api.generate() throws
GenerateErrors ==
    StatusErrors(<<"FAL", "API", "error">>, Statuses)
        \cup {<<"FAL", "returned", "no", "images">>} \cup FetchErrors

\* the messages api.generateVideo() throws
VideoErrors ==
    StatusErrors(<<"FAL", "Video", "API", "error">>, Statuses)
        \cup {<<"FAL", "returned", "no", "video", "URL">>} \cup FetchErrors

\* the messages analyzeImageWithGemini() throws
GeminiErrors ==
    {<<"Failed", "to", "download", "image", status>> : status \in {"404", "503"}}
        \cup StatusErrors(<<"Gemini", "API", "error">>, {"429", "500", "503"})
        \cup {<<"Gemini", "returned", "no", "text">>} \cup FetchErrors

\* the messages updateAirtableRecord() throws
StoreErrors ==
    StatusErrors(<<"Airtable", "update", "failed">>, {"422", "429", "503"})
        \cup {<<"network", "timeout">>}

\* String.prototype.toLowerCase on a word
LowerCaseWord(word) ==
    CASE word = "FAL" -> "fal"
      [] word = "API" -> "api"
      [] word = "URL" -> "url"
      [] word = "Video" -> "video"
      [] word = "Gemini" -> "gemini"
      [] word = "Airtable" -> "airtable"
      [] word = "Failed" -> "failed"
      [] word = "Too" -> "too"
      [] word = "Many" -> "many"
      [] word = "Requests" -> "requests"
      [] word = "Gateway" -> "gateway"
      [] word = "Timeout" -> "timeout"
      [] OTHER -> word

\* String.prototype.toLowerCase
toLowerCase(message) == [i \in 1..Len(message) |-> LowerCaseWord(message[i])]

\* String.prototype.includes
includes(message, phrase) ==
    \E i \in 1..(Len(message) - Len(phrase) + 1) :
        SubSeq(message, i, i + Len(phrase) - 1) = phrase

\* a substring that cuts nothing
substringWhole(message, start, end) == message

\* String.prototype.substring(start, end), for start <= end
substring(message, start, end) ==
    SubSeq(message, start + 1, IF end < Len(message) THEN end ELSE Len(message))

\* a test that finds every error retryable
isRetryableAlways(message) == TRUE

\* isRetryable in the catch of the generation loop
isRetryable(message) ==
    LET is524 == includes(message, <<"524">>)
        isTimeout == includes(toLowerCase(message), <<"timeout">>)
        is5xxError == \/ includes(message, <<"502">>)
                      \/ includes(message, <<"503">>)
                      \/ includes(message, <<"504">>)
    IN is524 \/ isTimeout \/ is5xxError

\* (is524 || isTimeout) in the catch of the video loop
isVideoRetryable(message) ==
    \/ includes(message, <<"524">>)
    \/ includes(toLowerCase(message), <<"timeout">>)

\* a test that finds no error transient
isTransientNever(message) == FALSE

\* isTransient in the outer catch
isTransient(message) ==
    LET is524 == includes(message, <<"524">>)
        isTimeout == includes(toLowerCase(message), <<"timeout">>)
        isTooManySubrequests ==
            includes(toLowerCase(message), <<"too", "many", "subrequests">>)
        is5xxError == \/ includes(message, <<"502">>)
                      \/ includes(message, <<"503">>)
                      \/ includes(message, <<"504">>)
    IN is524 \/ isTimeout \/ isTooManySubrequests \/ is5xxError

\* the test of the generation loop with one attempt more
retriesGenerationOnceMore(message, attempt) == isRetryable(message) /\ attempt < 4

\* isRetryable && attempt < 3
retriesGeneration(message, attempt) == isRetryable(message) /\ attempt < 3

\* the test of the video loop with one attempt more
retriesVideoOnceMore(message, attempt) == isVideoRetryable(message) /\ attempt < 3

\* (is524 || isTimeout) && attempt < 2
retriesVideo(message, attempt) == isVideoRetryable(message) /\ attempt < 2

\* a table of delays that does not escalate
backoffDelayFixed(attempt) == <<1000, 1000, 1000>>[attempt]

\* [1000, 2000, 4000][attempt - 1]
backoffDelay(attempt) == <<1000, 2000, 4000>>[attempt]

\* ------------------------------------------------------------------ processPrompt

\* the records a page can hold: with or without Generated Images and Prompt_Image
PromptRecords == [existingImages : BOOLEAN, promptImage : BOOLEAN]

\* the run configurations: video generation on or off, Gemini key present or not
GenConfigs == [enableVideo : BOOLEAN, geminiApiKey : BOOLEAN]

\* new ProgressTracker()
NewProgressTracker ==
    [totalPrompts |-> 0, processedPrompts |-> 0, successCount |-> 0, failCount |-> 0]

\* ProgressTracker.increment(success)
increment(tracker, success) ==
    [tracker EXCEPT !.processedPrompts = tracker.processedPrompts + 1,
                    !.successCount = tracker.successCount + (IF success THEN 1 ELSE 0),
                    !.failCount = tracker.failCount + (IF success THEN 0 ELSE 1)]

\* A processPrompt call that has done nothing yet.  pc is its position, attempt the
\* loop variable, caught the message the catch block in progress holds, lastError and
\* lastVideoError the message of the last error of api.generate() and of
\* api.generateVideo() (<<>> before the first, and once the block that declares the
\* variable is left), waitTime the sleep of acquire() in
\* progress, result what the call returned (<<>> before the return); the rest is
\* history: the number of calls of each provider, the
\* updateAirtableRecord calls in order, the delays given to sleep() in order, and the
\* number of recordFailure() and recordSuccess() calls.
NewCall ==
    [pc |-> "idle", attempt |-> 0, caught |-> <<>>, lastError |-> <<>>,
     lastVideoError |-> <<>>, waitTime |-> 0, result |-> <<>>,
     generate |-> 0, generateVideo |-> 0, analyze |-> 0,
     updates |-> <<>>, sleeps |-> <<>>, recordFailure |-> 0, recordSuccess |-> 0]

\* what one synchronous stretch of processPrompt reads and writes
World == [pp |-> pp, cb |-> circuitBreaker, lastCall |-> lastCall,
          tracker |-> progressTracker]

\* the result of the deferral with skipErrorSave left out
DeferredResultSaved ==
    [success |-> FALSE, error |-> <<"Circuit", "breaker", "open">>,
     skipErrorSave |-> FALSE]

\* { success: false, promptId, error: 'Circuit breaker open', skipErrorSave: true }
DeferredResult ==
    [success |-> FALSE, error |-> <<"Circuit", "breaker", "open">>,
     skipErrorSave |-> TRUE]

\* the test of existing images that never skips
skipsGenerationNever(record) == FALSE

\* existingImages && existingImages.length > 0
skipsGeneration(record) == record.existingImages

\* lines 1155-1165: progressTracker.increment(true); recordSuccess(); return
returnSuccess(w) ==
    [w EXCEPT !.tracker = increment(w.tracker, TRUE),
              !.cb = recordSuccess(w.cb),
              !.lastCall = "recordSuccess",
              !.pp.recordSuccess = w.pp.recordSuccess + 1,
              !.pp.result = <<[success |-> TRUE, error |-> <<>>,
                               skipErrorSave |-> FALSE]>>,
              !.pp.pc = "returned"]

\* lines 1167-1193, the outer catch at time t up to its return or its await: a
\* transient error is returned at once; any other is recorded in the breaker and the
\* write of the Error Message starts
outerCatch(w, message, t) ==
    IF isTransient(message)
    THEN [w EXCEPT !.tracker = increment(w.tracker, FALSE),
                   !.pp.result = <<[success |-> FALSE, error |-> message,
                                    skipErrorSave |-> TRUE]>>,
                   !.pp.pc = "returned"]
    ELSE [w EXCEPT !.cb = recordFailure(w.cb, t),
                   !.lastCall = "recordFailure",
                   !.pp.recordFailure = w.pp.recordFailure + 1,
                   !.pp.caught = message,
                   !.pp.pc = "saveError"]

\* lines 1198-1199, after the write of the Error Message, whatever became of it
returnFailure(w) ==
    [w EXCEPT !.tracker = increment(w.tracker, FALSE),
              !.pp.result = <<[success |-> FALSE, error |-> w.pp.caught,
                               skipErrorSave |-> FALSE]>>,
              !.pp.pc = "returned"]

\* a failed write of the Error Message that the outer catch lets escape
errorSaveFailedThrows(w) == [w EXCEPT !.pp.pc = "threw"]

\* lines 1194-1199: the write of the Error Message failed; catch (e) logs it and
\* the call returns its failure all the same
errorSaveFailed(w) == returnFailure(w)

\* lines 1018-1030: the generation loop starts, api.generate() is called
generateStage(w) ==
    [w EXCEPT !.pp.pc = "generate", !.pp.attempt = 1, !.pp.generate = w.pp.generate + 1]

\* lines 1087-1105 and 1151-1165: with video enabled the video loop starts and
\* api.generateVideo() is called, otherwise the call returns its success
videoStage(w) ==
    IF genConfig.enableVideo
    THEN [w EXCEPT !.pp.pc = "video", !.pp.attempt = 1,
                   !.pp.generateVideo = w.pp.generateVideo + 1]
    ELSE returnSuccess(w)

\* lines 1144-1148: catch (videoError), the write of the Error Message starts
videoCatch(w, message) ==
    [w EXCEPT !.pp.caught = <<"Video", "generation", "failed">> \o message,
              !.pp.lastVideoError = <<>>,
              !.pp.pc = "saveVideoError"]

\* the fields of the calls, with an Error Message that the write of the images
\* leaves alone
UpdateAtKeepsError(call) ==
    CASE call.pc = "savePrompt" -> [fields |-> {"Prompt"}, errorMessage |-> <<>>]
      [] call.pc = "saveImages" -> [fields |-> {"Generated Images"}, errorMessage |-> <<>>]
      [] call.pc = "saveVideo" -> [fields |-> {"Generated_Videos"}, errorMessage |-> <<>>]
      [] call.pc = "saveVideoError" ->
             [fields |-> {"Error Message"}, errorMessage |-> <<call.caught>>]
      [] call.pc = "saveError" ->
             [fields |-> {"Error Message"},
              errorMessage |-> <<substring(call.caught, 0, 200)>>]

\* the fields of the updateAirtableRecord call in progress at position pc, and the
\* value given to Error Message: <<>> if the field is left out, <<m>> for the
\* message m, where the empty message stands for null
UpdateAt(call) ==
    CASE call.pc = "savePrompt" -> [fields |-> {"Prompt"}, errorMessage |-> <<>>]
      [] call.pc = "saveImages" ->
             [fields |-> {"Generated Images", "Error Message"}, errorMessage |-> << <<>> >>]
      [] call.pc = "saveVideo" -> [fields |-> {"Generated_Videos"}, errorMessage |-> <<>>]
      [] call.pc = "saveVideoError" ->
             [fields |-> {"Error Message"}, errorMessage |-> <<call.caught>>]
      [] call.pc = "saveError" ->
             [fields |-> {"Error Message"},
              errorMessage |-> <<substring(call.caught, 0, 200)>>]

\* the updateAirtableRecord call in progress is added to the history, as done or failed
logUpdate(w, ok) ==
    [w EXCEPT !.pp.updates =
                  Append(w.pp.updates,
                         [fields |-> UpdateAt(w.pp).fields,
                          errorMessage |-> UpdateAt(w.pp).errorMessage,
                          ok |-> ok])]

\* the stretch of processPrompt ends in w: its writes are made
StepTo(w) ==
    /\ pp' = w.pp
    /\ circuitBreaker' = w.cb
    /\ lastCall' = w.lastCall
    /\ progressTracker' = w.tracker

\* what a stretch of processPrompt that only writes through StepTo leaves alone
restOfWorld == <<now, canProceedResult, rateVars, genConfig, promptRecord,
                 breakerBefore, runVars, uploadVars,
                   serverVars, driverVars>>

\* processPrompt(promptRecord, ...) is called: lines 936-1030 up to the first await
\* that suspends it.  An open breaker defers the
\* job; existing images skip the generation; a Prompt_Image is analysed (after
\* geminiLimiter.acquire()) or fetched; otherwise the generation starts.
ProcessPrompt(record) ==
    /\ pp.pc = "idle"
    /\ promptRecord' = record
    /\ breakerBefore' = circuitBreaker
    /\ LET r == canProceed(circuitBreaker, now)
           w == [pp |-> NewCall, cb |-> r.breaker, lastCall |-> "canProceed",
                 tracker |-> progressTracker]
           a == acquire(geminiLimiter, now)
           analyses == /\ r.result
                       /\ ~skipsGeneration(record)
                       /\ record.promptImage
                       /\ genConfig.geminiApiKey
       IN /\ canProceedResult' = <<r.result>>
          /\ IF analyses
             THEN geminiLimiter' = a.limiter /\ credited' = credited + a.added
             ELSE UNCHANGED <<geminiLimiter, credited>>
          /\ StepTo(IF ~r.result
                    THEN [w EXCEPT !.pp.result = <<DeferredResult>>, !.pp.pc = "returned"]
                    ELSE IF skipsGeneration(record) THEN videoStage(w)
                    ELSE IF ~record.promptImage THEN generateStage(w)
                    ELSE IF ~genConfig.geminiApiKey THEN [w EXCEPT !.pp.pc = "fetchImage"]
                    ELSE IF a.sleeps
                    THEN [w EXCEPT !.pp.pc = "acquireSleep", !.pp.waitTime = a.waitTime]
                    ELSE [w EXCEPT !.pp.pc = "analyze", !.pp.analyze = 1])
    /\ UNCHANGED <<now, genConfig, acqPc, wakeAt, runVars, uploadVars,
                   serverVars, driverVars>>

\* the sleep of geminiLimiter.acquire() is over, waitTime later: acquire() returns and
\* analyzeImageWithGemini() is called
AcquireEnds ==
    /\ pp.pc = "acquireSleep"
    /\ now' = now + pp.waitTime
    /\ geminiLimiter' = afterSleep(geminiLimiter)
    /\ pp' = [pp EXCEPT !.pc = "analyze", !.analyze = pp.analyze + 1, !.waitTime = 0]
    /\ UNCHANGED <<breakerVars, acqPc, wakeAt, credited, genConfig, promptRecord,
                   progressTracker, breakerBefore, runVars, uploadVars,
                   serverVars, driverVars>>

\* analyzeImageWithGemini() returns: the write of Prompt starts
AnalyzeReturns ==
    /\ pp.pc = "analyze"
    /\ StepTo([World EXCEPT !.pp.pc = "savePrompt"])
    /\ UNCHANGED restOfWorld

\* analyzeImageWithGemini() throws
AnalyzeThrows(message) ==
    /\ pp.pc = "analyze"
    /\ StepTo(outerCatch(World, message, now))
    /\ UNCHANGED restOfWorld

\* fetch(promptImageUrl) resolves, with a response that is ok or not: the
\* generation starts, with or without the image as a reference
FetchImageResolves ==
    /\ pp.pc = "fetchImage"
    /\ StepTo(generateStage(World))
    /\ UNCHANGED restOfWorld

\* fetch(promptImageUrl) rejects
FetchImageRejects(message) ==
    /\ pp.pc = "fetchImage"
    /\ StepTo(outerCatch(World, message, now))
    /\ UNCHANGED restOfWorld

\* api.generate() returns the images: the downloads start
GenerateReturns ==
    /\ pp.pc = "generate"
    /\ StepTo([World EXCEPT !.pp.pc = "download"])
    /\ UNCHANGED restOfWorld

\* api.generate() throws: lines 1034-1054
GenerateThrows(message) ==
    /\ pp.pc = "generate"
    /\ LET w == [World EXCEPT !.pp.lastError = message]
       IN StepTo(IF retriesGeneration(message, pp.attempt)
                 THEN [w EXCEPT !.pp.pc = "backoff",
                                !.pp.sleeps = Append(pp.sleeps, backoffDelay(pp.attempt))]
                 ELSE outerCatch(w, message, now))
    /\ UNCHANGED restOfWorld

\* api.generateVideo() returns the video: its download starts
VideoReturns ==
    /\ pp.pc = "video"
    /\ StepTo([World EXCEPT !.pp.pc = "downloadVideo"])
    /\ UNCHANGED restOfWorld

\* api.generateVideo() throws: lines 1109-1121, and the catch of line 1144
VideoThrows(message) ==
    /\ pp.pc = "video"
    /\ LET w == [World EXCEPT !.pp.lastVideoError = message]
       IN StepTo(IF retriesVideo(message, pp.attempt)
                 THEN [w EXCEPT !.pp.pc = "videoBackoff",
                                !.pp.sleeps = Append(pp.sleeps, 5000)]
                 ELSE videoCatch(w, message))
    /\ UNCHANGED restOfWorld

\* the sleep before a retry is over, its delay later: the next attempt is made
SleepEnds ==
    /\ pp.pc \in {"backoff", "videoBackoff"}
    /\ now' = now + pp.sleeps[Len(pp.sleeps)]
    /\ pp' = IF pp.pc = "backoff"
             THEN [pp EXCEPT !.pc = "generate", !.attempt = pp.attempt + 1,
                             !.generate = pp.generate + 1]
             ELSE [pp EXCEPT !.pc = "video", !.attempt = pp.attempt + 1,
                             !.generateVideo = pp.generateVideo + 1]
    /\ UNCHANGED <<breakerVars, rateVars, genConfig, promptRecord, progressTracker,
                   breakerBefore, runVars, uploadVars,
                   serverVars, driverVars>>

\* the downloads are over (a failed download is logged and nothing else): the write
\* of the images, or of the video, starts
DownloadsEnd ==
    /\ pp.pc \in {"download", "downloadVideo"}
    /\ StepTo([World EXCEPT !.pp.pc = IF pp.pc = "download" THEN "saveImages"
                                      ELSE "saveVideo"])
    /\ UNCHANGED restOfWorld

UpdatePositions == {"savePrompt", "saveImages", "saveVideo", "saveVideoError", "saveError"}

\* updateAirtableRecord() returns
UpdateReturns ==
    /\ pp.pc \in UpdatePositions
    /\ LET w == logUpdate(World, TRUE)
       IN StepTo(CASE pp.pc = "savePrompt" -> generateStage(w)
                   [] pp.pc = "saveImages" -> videoStage([w EXCEPT !.pp.lastError = <<>>])
                   [] pp.pc = "saveVideo" ->
                          returnSuccess([w EXCEPT !.pp.lastVideoError = <<>>])
                   [] pp.pc = "saveVideoError" -> returnSuccess(w)
                   [] pp.pc = "saveError" -> returnFailure(w))
    /\ UNCHANGED restOfWorld

\* updateAirtableRecord() throws: in the image stage the outer catch takes it, in the
\* video stage catch (videoError), in catch (videoError) the outer catch again, and
\* in the outer catch it is logged and nothing else
UpdateThrows(message) ==
    /\ pp.pc \in UpdatePositions
    /\ LET w == logUpdate(World, FALSE)
       IN StepTo(CASE pp.pc \in {"savePrompt", "saveVideoError"} ->
                          outerCatch(w, message, now)
                   [] pp.pc = "saveImages" ->
                          outerCatch([w EXCEPT !.pp.lastError = <<>>], message, now)
                   [] pp.pc = "saveVideo" -> videoCatch(w, message)
                   [] pp.pc = "saveError" -> errorSaveFailed(w))
    /\ UNCHANGED restOfWorld

\* ------------------------------------------------------------------ server.js

\* lines 36-46: processingState as the module sets it; of its fields, isRunning and
\* error (null: <<>>) are kept
NewProcessingState == [isRunning |-> FALSE, error |-> <<>>]

\* What spawn() can come to: the child process runs, or it could not be spawned
\* (EAGAIN, ENOENT, ...), in which case the ChildProcess emits 'error' and, once
\* its streams are closed, 'close'.
SpawnOutcomes == {"alive", "failedToSpawn"}

\* the exit codes of batch-processor-vps.js: 0, or 1 when main() threw
ExitCodes == {0, 1}

\* the child processes not spawned yet, and the next one to be
Unspawned == {c \in Children : processor[c] = "none"}

\* lines 176-281, startGeneration(): nothing if a run is active; else processingState
\* is reset with isRunning: true and the next child is spawned
startGeneration(state, children, outcome) ==
    IF state.isRunning
    THEN [state |-> state, children |-> children]
    ELSE LET c == CHOOSE c \in Unspawned : \A d \in Unspawned : c <= d
         IN [state    |-> [isRunning |-> TRUE, error |-> <<>>],
             children |-> [children EXCEPT ![c] = outcome]]

\* lines 55-65, app.get('/'): if (processingState.isRunning) the page is sent; else
\* startGeneration() and the page is sent
GetRoot(outcome) ==
    /\ Unspawned # {}
    /\ LET r == IF processingState.isRunning
                THEN [state |-> processingState, children |-> processor]
                ELSE startGeneration(processingState, processor, outcome)
       IN /\ processingState' = r.state
          /\ processor' = r.children
    /\ UNCHANGED <<now, breakerVars, rateVars, jobVars, runVars, uploadVars, driverVars>>

\* lines 154-170, app.get('/trigger'): the same test, with JSON responses
GetTrigger(outcome) ==
    /\ Unspawned # {}
    /\ LET r == IF processingState.isRunning
                THEN [state |-> processingState, children |-> processor]
                ELSE startGeneration(processingState, processor, outcome)
       IN /\ processingState' = r.state
          /\ processor' = r.children
    /\ UNCHANGED <<now, breakerVars, rateVars, jobVars, runVars, uploadVars, driverVars>>

\* the child process ends; its 'close' event follows once its streams are closed
ChildExits(c) ==
    /\ processor[c] = "alive"
    /\ processor' = [processor EXCEPT ![c] = "exited"]
    /\ UNCHANGED <<processingState, now, breakerVars, rateVars, jobVars, runVars,
                   uploadVars, driverVars>>

\* lines 272-280: processor.on('error'), emitted when the child could not be spawned
OnError(c) ==
    /\ processor[c] = "failedToSpawn"
    /\ processor' = [processor EXCEPT ![c] = "errored"]
    /\ processingState' = [processingState EXCEPT !.isRunning = FALSE,
                                                  !.error = <<"spawn">>]
    /\ UNCHANGED <<now, breakerVars, rateVars, jobVars, runVars, uploadVars, driverVars>>

\* lines 253-270: processor.on('close'), emitted after the child has ended or after
\* the 'error' of a child that could not be spawned (then with a negative code)
OnClose(c, code) ==
    /\ processor[c] \in {"exited", "errored"}
    /\ processor[c] = "errored" => code # 0
    /\ processor' = [processor EXCEPT ![c] = "closed"]
    /\ processingState' =
          IF code = 0
          THEN [processingState EXCEPT !.isRunning = FALSE]
          ELSE [processingState EXCEPT !.isRunning = FALSE, !.error = <<"code">>]
    /\ UNCHANGED <<now, breakerVars, rateVars, jobVars, runVars, uploadVars, driverVars>>

\* ------------------------------------------------------------------ main: the paging loop

\* The records of the Generation table are numbered in the order the store lists
\* them.  backlog holds those that match the filter of lines 857-859: no Generated
\* Images, or, with enableVideo, images and no Generated_Videos.

\* The locals of main(): pc is its position ("idle" before the call, "loading" while
\* the configuration is fetched, "fetching" while a page is, "processing" inside
\* Promise.all, "exited" after the loop and the summary, "threw" when it threw),
\* prompts the page, call the state of the concurrencyLimiter.run() call of each
\* record of the page ("queued" in the limiter, "running" inside processPrompt,
\* "succeeded" and "failed" once its result is in), and the totals.
NewMain ==
    [pc |-> "idle", prompts |-> <<>>, call |-> [j \in Records |-> "none"],
     totalProcessed |-> 0, totalSuccess |-> 0, totalFailed |-> 0]

\* The counters of the run are followed up to MaxTally: the value MaxTally stands
\* for MaxTally or more.
Tally(n) == Min(n, MaxTally)

\* the records of a set in the order of the table
RECURSIVE Listed(_)
Listed(records) ==
    IF records = {} THEN <<>>
    ELSE LET first == CHOOSE j \in records : \A k \in records : j <= k
         IN <<first>> \o Listed(records \ {first})

\* maxRecords=${batchSize}: the page the store returns
Page(records) == SubSeq(Listed(records), 1, Min(Cardinality(records), batchSize))

\* the loop that goes on as long as a page holds any record
morePagesWhileAny(prompts) == Len(prompts) > 0

\* if (prompts.length < batchSize) break;
morePages(prompts) == ~(Len(prompts) < batchSize)

\* What a stretch of main() and of the calls of the page reads and writes.
Stretch == [cl |-> concurrencyLimiter, cb |-> circuitBreaker, lastCall |-> lastCall,
            canProceedResult |-> canProceedResult, tracker |-> progressTracker,
            call |-> main.call]

\* the value of a one-element set
The(S) == CHOOSE y \in S : TRUE

RECURSIVE run(_, _, _), settle(_, _, _, _)

\* concurrencyLimiter.run(async () => await processPrompt(...)) for record j, up to
\* its first await of a timer or of an answer: the call queues, or takes a slot and
\* enters processPrompt, which asks the breaker and goes on to its first provider
\* call, or (lines 944-947) returns its deferral, with which run() settles in the
\* microtasks that follow
run(r, j, t) ==
    The({ IF MustWait(s.cl)
          THEN [s EXCEPT !.cl.queue = Append(s.cl.queue, j), !.call[j] = "queued"]
          ELSE The({ IF c.result
                     THEN [s EXCEPT !.cl.running = s.cl.running + 1,
                                    !.cb = c.breaker,
                                    !.lastCall = "canProceed",
                                    !.canProceedResult = <<c.result>>,
                                    !.call[j] = "running"]
                     ELSE settle([s EXCEPT !.cl.running = s.cl.running + 1,
                                           !.cb = c.breaker,
                                           !.lastCall = "canProceed",
                                           !.canProceedResult = <<c.result>>],
                                 j, DeferredResult.success, t)
                     : c \in {canProceed(s.cb, t)} })
          : s \in {r} })

\* run() after fn() resolved with a result: totalExecuted++, the finally block, and
\* the waiter it woke re-tests the loop of run() in the next microtask
settle(r, j, success, t) ==
    The({ The({ IF f.woken = <<>>
                THEN [s EXCEPT !.cl = f.limiter,
                               !.call[j] = IF success THEN "succeeded" ELSE "failed"]
                ELSE run([s EXCEPT !.cl = f.limiter,
                                   !.call[j] = IF success THEN "succeeded" ELSE "failed"],
                         f.woken[1], t)
                : f \in {Finally([s.cl EXCEPT !.totalExecuted =
                                                Tally(s.cl.totalExecuted + 1)])} })
          : s \in {r} })

\* prompts.map(promptRecord => concurrencyLimiter.run(...)): the calls are made one
\* after the other
RECURSIVE runAll(_, _, _)
runAll(r, prompts, t) ==
    IF prompts = <<>> THEN r
    ELSE runAll(run(r, Head(prompts), t), Tail(prompts), t)

\* the stretch takes effect
Becomes(r) ==
    /\ concurrencyLimiter' = r.cl
    /\ circuitBreaker' = r.cb
    /\ lastCall' = r.lastCall
    /\ canProceedResult' = r.canProceedResult
    /\ progressTracker' = [r.tracker EXCEPT
                              !.processedPrompts = Tally(r.tracker.processedPrompts),
                              !.successCount = Tally(r.tracker.successCount),
                              !.failCount = Tally(r.tracker.failCount)]

\* what the actions of main() leave alone
restOfRun == <<now, rateVars, promptRecord, pp, breakerBefore, runPc, runResumes,
               startOrder, waited, uploadVars, serverVars>>

\* lines 724-850: the configuration record arrives with a FAL_API_KEY, the limiters
\* and the breaker are built, the reference images are there; the first page is
\* requested
ConfigLoads(config) ==
    /\ main.pc = "loading"
    /\ genConfig' = config
    /\ concurrencyLimiter' = NewConcurrencyLimiter(2)
    /\ circuitBreaker' = NewCircuitBreaker(5, 60000)
    /\ main' = [main EXCEPT !.pc = "fetching"]
    /\ UNCHANGED <<lastCall, canProceedResult, progressTracker, backlog, restOfRun>>

\* lines 733-776, 800-827: the configuration cannot be loaded (the store answers with
\* an error, no record, no FAL_API_KEY, no reference image): main() throws
ConfigFails ==
    /\ main.pc = "loading"
    /\ main' = [main EXCEPT !.pc = "threw"]
    /\ UNCHANGED <<genConfig, concurrencyLimiter, breakerVars, progressTracker, backlog,
                   restOfRun>>

\* lines 872-874: the store answers the page request with an error: main() throws
FetchPageFails ==
    /\ main.pc = "fetching"
    /\ main' = [main EXCEPT !.pc = "threw"]
    /\ UNCHANGED <<genConfig, concurrencyLimiter, breakerVars, progressTracker, backlog,
                   restOfRun>>

\* lines 876-883: the page arrives without a record: the loop is left and the
\* summary printed
FetchPageEmpty ==
    /\ main.pc = "fetching"
    /\ Len(Page(backlog)) = 0
    /\ main' = [main EXCEPT !.pc = "exited"]
    /\ UNCHANGED <<genConfig, concurrencyLimiter, breakerVars, progressTracker, backlog,
                   restOfRun>>

\* lines 876-902: the page arrives with its records: setTotal(), and run() is
\* called for every record of the page
FetchPageResolves ==
    /\ main.pc = "fetching"
    /\ Len(Page(backlog)) > 0
    /\ \E r \in {runAll([Stretch EXCEPT !.tracker.totalPrompts = Len(Page(backlog))],
                          Page(backlog), now)} :
          /\ Becomes(r)
          /\ main' = [main EXCEPT !.pc = "processing", !.prompts = Page(backlog),
                                  !.call = r.call]
    /\ UNCHANGED <<genConfig, backlog, restOfRun>>

\* the messages processPrompt can end with: none, a transient and a permanent error
\* of the image provider
Endings == {<<>>, <<"FAL", "API", "error", "503">>, <<"FAL", "API", "error", "400">>}

\* The processPrompt call of record j, past the breaker, comes to its end: with its
\* result (lines 1155-1165) or through the outer catch (lines 1167-1199), whose
\* write of the Error Message is answered one way or the other.  saved tells
\* whether the record has left the filter of the page: it has its images and, with
\* enableVideo, its video.  A failed call leaves the record in the backlog, and so
\* does a video failure, which does not fail the call.
ProcessPromptEnds(j, message, saved) ==
    /\ main.pc = "processing"
    /\ main.call[j] = "running"
    /\ saved => message = <<>>
    /\ (message = <<>> /\ ~genConfig.enableVideo) => saved
    /\ LET w == [pp |-> NewCall, cb |-> circuitBreaker, lastCall |-> lastCall,
                 tracker |-> progressTracker]
       IN \E caught \in {IF message = <<>> THEN w ELSE outerCatch(w, message, now)} :
          \E end \in {IF message = <<>> THEN returnSuccess(w)
                      ELSE IF caught.pp.pc = "returned" THEN caught
                      ELSE returnFailure(caught)} :
          \E r \in {settle([Stretch EXCEPT !.cb = [end.cb EXCEPT !.totalBreaks =
                                                       Tally(end.cb.totalBreaks)],
                                           !.lastCall = end.lastCall,
                                           !.tracker = end.tracker],
                           j, end.pp.result[1].success, now)} :
             /\ Becomes(r)
             /\ main' = [main EXCEPT !.call = r.call]
    /\ backlog' = IF saved THEN backlog \ {j} ELSE backlog
    /\ UNCHANGED <<genConfig, restOfRun>>

\* the results of the page that satisfy r => r.success, or r => !r.success
Succeeded == {i \in 1..Len(main.prompts) : main.call[main.prompts[i]] = "succeeded"}
Failed == {i \in 1..Len(main.prompts) : main.call[main.prompts[i]] = "failed"}

\* lines 904-918: Promise.all resolves with the results of the page; the totals
\* are added up; after a short page the loop is left and the summary printed, else
\* the next page is requested
PageCompletes ==
    /\ main.pc = "processing"
    /\ \A i \in 1..Len(main.prompts) : i \in Succeeded \cup Failed
    /\ main' = [main EXCEPT
                   !.pc = IF morePages(main.prompts) THEN "fetching" ELSE "exited",
                   !.prompts = <<>>,
                   !.call = [j \in Records |-> "none"],
                   !.totalProcessed = Tally(main.totalProcessed + Len(main.prompts)),
                   !.totalSuccess = Tally(main.totalSuccess + Cardinality(Succeeded)),
                   !.totalFailed = Tally(main.totalFailed + Cardinality(Failed))]
    /\ UNCHANGED <<genConfig, concurrencyLimiter, breakerVars, progressTracker, backlog,
                   restOfRun>>

\* the time (ms) that passes in one go during a run: more than the cooldown
RunTicks == {61000}

\* ------------------------------------------------------------------ specifications

\* the objects as the constructors leave them, no call made yet
InitCalls ==
    /\ runPc = [t \in Tasks |-> "idle"]
    /\ runResumes = <<>>
    /\ startOrder = <<>>
    /\ waited = {}
    /\ upPc = [u \in Uploads |-> "idle"]
    /\ upResumes = <<>>
    /\ timeout = [u \in Uploads |-> 0]
    /\ slotReleased = [u \in Uploads |-> FALSE]
    /\ timerFired = [u \in Uploads |-> FALSE]
    /\ releases = [u \in Uploads |-> 0]
    /\ recorded = <<>>
    /\ processingState = NewProcessingState
    /\ processor = [c \in Children |-> "none"]

\* no acquire() call made yet
InitAcquires ==
    /\ acqPc = [a \in Acquires |-> "idle"]
    /\ wakeAt = [a \in Acquires |-> 0]
    /\ credited = 0

\* no processPrompt call made yet
InitJobs ==
    /\ promptRecord = [existingImages |-> FALSE, promptImage |-> FALSE]
    /\ pp = NewCall
    /\ progressTracker = NewProgressTracker
    /\ breakerBefore = circuitBreaker
    /\ backlog = {}
    /\ main = NewMain

\* the clock, the breaker and the rate limiter as the script sets them up
InitServices ==
    /\ now = 0
    /\ circuitBreaker = NewCircuitBreaker(5, 60000)
    /\ canProceedResult = <<>>
    /\ lastCall = "none"
    /\ geminiLimiter = NewRateLimiter(10, 0)
    /\ InitAcquires
    /\ genConfig = [enableVideo |-> FALSE, geminiApiKey |-> TRUE]
    /\ InitJobs

InitRun ==
    /\ \E limit \in 1..MaxLimit : concurrencyLimiter = NewConcurrencyLimiter(limit)
    /\ uploadLimiter = NewUploadLimiter(3, 10000, 2)
    /\ InitCalls
    /\ InitServices

NextRun ==
    \/ \E t \in Tasks : Run(t)
    \/ ResumeRun
    \/ \E t \in Tasks : TaskReturns(t)
    \/ \E t \in Tasks : TaskThrows(t)

SpecRun == InitRun /\ [][NextRun]_vars

\* Scheduling the code can rely on: the event loop runs every queued microtask, every
\* one of the N calls is made, and (the hypothesis of the liveness claim) every task
\* that starts finishes, by returning or by throwing.
FairSpecRun ==
    /\ SpecRun
    /\ WF_vars(ResumeRun)
    /\ \A t \in Tasks : WF_vars(Run(t))
    /\ \A t \in Tasks : WF_vars(TaskReturns(t) \/ TaskThrows(t))

InitUpload ==
    /\ concurrencyLimiter = NewConcurrencyLimiter(2)
    /\ \E c \in UploadConfigs : uploadLimiter = NewUploadLimiter(c[1], c[2], c[3])
    /\ InitCalls
    /\ InitServices

NextUpload ==
    \/ \E u \in Uploads : WrapFetch(u)
    \/ ResumeAcquire
    \/ StartFetch
    \/ \E u \in Uploads : TimerFires(u)
    \/ \E u \in Uploads : FetchResolves(u)
    \/ \E u \in Uploads : FetchRejects(u)

SpecUpload == InitUpload /\ [][NextUpload]_vars

NextRecord == \E d \in SampleValues : RecordUploadTime(d, MaxFeeds)

SpecRecord == InitUpload /\ [][NextRecord]_vars

\* recordUploadTime called more often than the history is long, with one fast and
\* one slow duration
HistorySamples == {14999, 30000}

NextHistory == \E d \in HistorySamples : RecordUploadTime(d, MaxHistoryFeeds)

SpecHistory == InitUpload /\ [][NextHistory]_vars

InitBreaker ==
    /\ concurrencyLimiter = NewConcurrencyLimiter(2)
    /\ uploadLimiter = NewUploadLimiter(3, 10000, 2)
    /\ InitCalls
    /\ now = 0
    /\ \E c \in BreakerConfigs : circuitBreaker = NewCircuitBreaker(c[1], c[2])
    /\ canProceedResult = <<>>
    /\ lastCall = "none"
    /\ geminiLimiter = NewRateLimiter(10, 0)
    /\ InitAcquires
    /\ genConfig = [enableVideo |-> FALSE, geminiApiKey |-> TRUE]
    /\ InitJobs

NextBreaker ==
    \/ CanProceed
    \/ RecordFailure
    \/ RecordSuccess
    \/ \E d \in BreakerTicks : Tick(d, MaxTicks * d)

SpecBreaker == InitBreaker /\ [][NextBreaker]_vars

InitRate ==
    /\ concurrencyLimiter = NewConcurrencyLimiter(2)
    /\ uploadLimiter = NewUploadLimiter(3, 10000, 2)
    /\ InitCalls
    /\ now = 0
    /\ circuitBreaker = NewCircuitBreaker(5, 60000)
    /\ canProceedResult = <<>>
    /\ lastCall = "none"
    /\ \E c \in RateCapacities : geminiLimiter = NewRateLimiter(c, 0)
    /\ InitAcquires
    /\ genConfig = [enableVideo |-> FALSE, geminiApiKey |-> TRUE]
    /\ InitJobs

NextRate ==
    \/ \E a \in Acquires : Acquire(a)
    \/ \E a \in Acquires : WakeAcquire(a)
    \/ \E d \in RateTicks : Tick(d, MaxRateTicks * d)

SpecRate == InitRate /\ [][NextRate]_vars

\* the breaker after n more recordFailure() calls at time t
RECURSIVE FailedTimes(_, _, _)
FailedTimes(cb, n, t) == IF n = 0 THEN cb ELSE FailedTimes(recordFailure(cb, t), n - 1, t)

\* the rate limiter after n more acquire() calls at time t that did not have to sleep
RECURSIVE AcquiredTimes(_, _, _)
AcquiredTimes(rl, n, t) ==
    IF n = 0 THEN rl ELSE AcquiredTimes(acquire(rl, t).limiter, n - 1, t)

\* how many recordFailure() calls, with no success after them, earlier jobs of the
\* run have made: none, one less than the threshold, the threshold, one more
PriorFailures == {0, 4, 5, 6}

\* how many acquire() calls earlier jobs of the run have made: none, or the whole burst
PriorAcquires == {0, 10}

\* A run in progress some time before a processPrompt call is made: earlier jobs have
\* left failures in the breaker and have used the rate limiter.  The specification
\* follows that one call from its start to its return.
InitPipeline ==
    /\ concurrencyLimiter = NewConcurrencyLimiter(2)
    /\ uploadLimiter = NewUploadLimiter(3, 10000, 2)
    /\ InitCalls
    /\ now = 0
    /\ \E n \in PriorFailures :
           circuitBreaker = FailedTimes(NewCircuitBreaker(5, 60000), n, 0)
    /\ canProceedResult = <<>>
    /\ lastCall = "none"
    /\ \E n \in PriorAcquires : geminiLimiter = AcquiredTimes(NewRateLimiter(10, 0), n, 0)
    /\ InitAcquires
    /\ genConfig \in GenConfigs
    /\ InitJobs

NextPipeline ==
    \/ \E record \in PromptRecords : ProcessPrompt(record)
    \/ AcquireEnds
    \/ AnalyzeReturns
    \/ \E message \in GeminiErrors : AnalyzeThrows(message)
    \/ FetchImageResolves
    \/ \E message \in FetchErrors : FetchImageRejects(message)
    \/ GenerateReturns
    \/ \E message \in GenerateErrors : GenerateThrows(message)
    \/ VideoReturns
    \/ \E message \in VideoErrors : VideoThrows(message)
    \/ SleepEnds
    \/ DownloadsEnd
    \/ UpdateReturns
    \/ \E message \in StoreErrors : UpdateThrows(message)
    \/ \E d \in BreakerTicks : Tick(d, MaxPipelineTicks * d)

SpecPipeline == InitPipeline /\ [][NextPipeline]_vars

\* The two gates of a run together.  Every generation request is made by a job that
\* runs inside concurrencyLimiter.run(), and a job awaits each of its requests
\* before it makes the next one or ends.

\* the wrapFetch calls that have not settled
Requesting == {u \in Uploads : upPc[u] \in {"waiting", "woken", "acquired", "fetching"}}

\* the jobs that run inside the concurrency gate
RunningJobs == {t \in Tasks : runPc[t] = "executing"}

\* jobs that make a request without awaiting the one they made before
SomeJobRuns == RunningJobs # {}

\* line 532, const response = await fetchFn(): some running job is not awaiting a
\* request, it can make one, or end
SomeJobNotAwaiting == Cardinality(Requesting) < Cardinality(RunningJobs)

\* the limiter after the uploads of an earlier part of the run, which settled one
\* after the other and recorded these durations
RECURSIVE Replay(_, _)
Replay(ul, samples) ==
    IF samples = <<>> THEN ul
    ELSE Replay(recordUploadTime([ul EXCEPT !.totalUploads = ul.totalUploads + 1],
                                 Head(samples)),
                Tail(samples))

\* the durations recorded earlier in the run: none, or a connection that has
\* slowed down (each request taking its whole timeout)
PriorSamples == {<<>>, <<10000, 10000, 10000, 20000, 25000, 30000>>}

\* lines 783-787: the gates as main builds them
InitGates ==
    /\ concurrencyLimiter = NewConcurrencyLimiter(2)
    /\ InitCalls
    /\ InitServices
    /\ \E samples \in PriorSamples :
          uploadLimiter = Replay(NewUploadLimiter(3, 10000, 2), samples)

\* The function handed to run() is processPrompt, which returns in every case, so a
\* job leaves the gate by TaskReturns.  A request that had to wait for an upload
\* slot would stay in the queue: nothing about it is assumed.
NextGates ==
    \/ \E t \in 1..NumGateTasks : Run(t)
    \/ ResumeRun
    \/ \E t \in 1..NumGateTasks : SomeJobNotAwaiting /\ TaskReturns(t)
    \/ \E u \in 1..NumGateUploads : SomeJobNotAwaiting /\ WrapFetch(u)
    \/ StartFetch
    \/ \E u \in 1..NumGateUploads : TimerFires(u)
    \/ \E u \in 1..NumGateUploads : FetchResolves(u)
    \/ \E u \in 1..NumGateUploads : FetchRejects(u)

SpecGates == InitGates /\ [][NextGates]_vars

\* server.js with no request received yet; the script is not running
InitServer ==
    /\ concurrencyLimiter = NewConcurrencyLimiter(2)
    /\ uploadLimiter = NewUploadLimiter(3, 10000, 2)
    /\ InitCalls
    /\ InitServices

\* The requests and the events of the children in any order.  GET /status and
\* GET /download read processingState and write nothing.
NextServer ==
    \/ \E outcome \in SpawnOutcomes : GetRoot(outcome)
    \/ \E outcome \in SpawnOutcomes : GetTrigger(outcome)
    \/ \E c \in Children : ChildExits(c)
    \/ \E c \in Children : OnError(c)
    \/ \E c \in Children, code \in ExitCodes : OnClose(c, code)

SpecServer == InitServer /\ [][NextServer]_vars

\* main() has been called and awaits the configuration; the Generation table holds
\* any number of records without output
InitDriver ==
    /\ concurrencyLimiter = NewConcurrencyLimiter(2)
    /\ uploadLimiter = NewUploadLimiter(3, 10000, 2)
    /\ InitCalls
    /\ now = 0
    /\ circuitBreaker = NewCircuitBreaker(5, 60000)
    /\ canProceedResult = <<>>
    /\ lastCall = "none"
    /\ geminiLimiter = NewRateLimiter(10, 0)
    /\ InitAcquires
    /\ genConfig = [enableVideo |-> FALSE, geminiApiKey |-> TRUE]
    /\ promptRecord = [existingImages |-> FALSE, promptImage |-> FALSE]
    /\ pp = NewCall
    /\ progressTracker = NewProgressTracker
    /\ breakerBefore = circuitBreaker
    /\ \E n \in 0..NumRecords : backlog = 1..n
    /\ main = [NewMain EXCEPT !.pc = "loading"]

\* a step of main() or of a call of the page: the store or a provider answers
MainStep ==
    \/ \E config \in GenConfigs : ConfigLoads(config)
    \/ ConfigFails
    \/ FetchPageEmpty
    \/ FetchPageResolves
    \/ FetchPageFails
    \/ \E j \in Records, message \in Endings, saved \in BOOLEAN :
           ProcessPromptEnds(j, message, saved)
    \/ PageCompletes

\* Of a run only canProceed() reads the clock, and only once the counter has reached
\* the threshold, to compare it with the stamp of the last failure: time is let
\* pass while the breaker is in that state.
NextDriver ==
    \/ MainStep
    \/ \E d \in RunTicks : isOpen(circuitBreaker) /\ Tick(d, MaxRunTicks * d)

SpecDriver == InitDriver /\ [][NextDriver]_vars

\* The run with the scheduling the claims about it assume: the store and the
\* providers always answer, with a value or with an error.
FairSpecDriver == SpecDriver /\ WF_vars(MainStep)

\* a step of the processPrompt call in progress: a provider or the store answers,
\* or a sleep ends
JobStep ==
    \/ AcquireEnds
    \/ AnalyzeReturns
    \/ \E message \in GeminiErrors : AnalyzeThrows(message)
    \/ FetchImageResolves
    \/ \E message \in FetchErrors : FetchImageRejects(message)
    \/ GenerateReturns
    \/ \E message \in GenerateErrors : GenerateThrows(message)
    \/ VideoReturns
    \/ \E message \in VideoErrors : VideoThrows(message)
    \/ SleepEnds
    \/ DownloadsEnd
    \/ UpdateReturns
    \/ \E message \in StoreErrors : UpdateThrows(message)

NextJob ==
    \/ \E record \in PromptRecords : ProcessPrompt(record)
    \/ JobStep

\* The processPrompt call with the scheduling the code relies on: every provider
\* call and every store write is answered, by a value or by an error, and every
\* sleep ends.
FairSpecJob == InitPipeline /\ [][NextJob]_vars /\ WF_vars(JobStep)

\* ------------------------------------------------------------------ helpers of the claims

InSeq(seq, x) == \E i \in 1..Len(seq) : seq[i] = x

Pos(seq, x) == CHOOSE i \in 1..Len(seq) : seq[i] = x

Executing == {t \in Tasks : runPc[t] = "executing"}

Finished == {t \in Tasks : runPc[t] \in {"done", "failed"}}

\* ------------------------------------------------------------------ claims: ConcurrencyLimiter

\* C1: in every reachable state the number of tasks executing inside run(), which
\* is what the running counter holds, lies between 0 and the limit.
C1_RunningWithinLimit ==
    /\ concurrencyLimiter.running = Cardinality(Executing)
    /\ concurrencyLimiter.running >= 0
    /\ concurrencyLimiter.running <= concurrencyLimiter.max

\* the limit is reached while a call is parked in the queue
C1_Witness ==
    /\ concurrencyLimiter.running = concurrencyLimiter.max
    /\ concurrencyLimiter.queue # <<>>

\* C2: waiters are served first-in first-out: a call that had to wait starts its
\* task before the task of every call made after it (call a is made before call b
\* exactly when a < b).
C2_FifoStart ==
    \A a, b \in Tasks :
        ( /\ a \in waited
          /\ a < b
          /\ InSeq(startOrder, b) )
        => ( /\ InSeq(startOrder, a)
             /\ Pos(startOrder, a) < Pos(startOrder, b) )

\* C3: when all N > L calls are made and every started task finishes, every task
\* eventually starts and completes.
C3_AllComplete == <>(Finished = Tasks)

\* all tasks are through, and at least one of them had to wait for a slot
C3_Witness ==
    /\ Finished = Tasks
    /\ waited # {}
    /\ NumTasks > concurrencyLimiter.max

\* C4: a task that throws gives its slot back like one that returns: in the step
\* in which it fails, running goes down by one and the head of the queue, if any,
\* is removed from the queue and woken; running always equals the number of tasks
\* executing, so no slot is given back twice or kept.
C4_FailureReleasesSlot ==
    /\ [](concurrencyLimiter.running = Cardinality(Executing))
    /\ [][\A t \in Tasks :
            (runPc[t] = "executing" /\ runPc'[t] = "failed")
            => /\ concurrencyLimiter'.running = concurrencyLimiter.running - 1
               /\ concurrencyLimiter'.totalExecuted = concurrencyLimiter.totalExecuted
               /\ IF concurrencyLimiter.queue = <<>>
                  THEN /\ concurrencyLimiter'.queue = <<>>
                       /\ runResumes' = runResumes
                  ELSE /\ concurrencyLimiter'.queue = Tail(concurrencyLimiter.queue)
                       /\ runResumes' = Append(runResumes, Head(concurrencyLimiter.queue))
                       /\ runPc'[Head(concurrencyLimiter.queue)] = "woken"]_vars

\* the only task that has finished so far failed, and its release woke a waiter
C4_Witness ==
    \E t \in Tasks :
        /\ runPc[t] = "failed"
        /\ Finished = {t}
        /\ \E u \in Tasks : runPc[u] = "woken"

\* ------------------------------------------------------------------ claims: UploadLimiter.wrapFetch

\* the calls whose fetch is issued and has neither resolved nor rejected
InFlight == {u \in Uploads : upPc[u] = "fetching"}

\* the calls that took a slot which neither the timer nor the completion gave back
Holders == {u \in Uploads : upPc[u] \in {"acquired", "fetching"} /\ releases[u] = 0}

Completed == {u \in Uploads : upPc[u] \in {"done", "failed"}}

\* C5: every wrapFetch call releases its slot exactly once and counts itself in
\* totalUploads exactly once, whether the timer fires first or the fetch resolves or
\* rejects first; uploading never goes below 0.
C5_ReleasedExactlyOnce ==
    /\ \A u \in Uploads :
          /\ releases[u] <= 1
          /\ (u \in Completed \/ timerFired[u]) => releases[u] = 1
    /\ uploadLimiter.totalUploads = Cardinality({u \in Uploads : releases[u] = 1})
    /\ uploadLimiter.uploading >= 0

\* one fetch resolved after its timer had fired, one rejected after its timer had
\* fired, and one completed before its timer
C5_Witness ==
    /\ \E u \in Uploads : upPc[u] = "done" /\ timerFired[u]
    /\ \E u \in Uploads : upPc[u] = "failed" /\ timerFired[u]
    /\ \E u \in Uploads : u \in Completed /\ ~timerFired[u]

\* C6: in every reachable state the held slots lie between 0 and the current limit.
C6_UploadingWithinLimit ==
    /\ uploadLimiter.uploading >= 0
    /\ uploadLimiter.uploading <= uploadLimiter.max

\* C7 as stated: the fetches in flight never exceed the current limit.
C7_InFlightWithinLimit == Cardinality(InFlight) <= uploadLimiter.max

\* C7, amended: the limit bounds the admissions, not the transfers in flight.  The
\* uploading counter equals the number of calls holding a slot (every fetch in flight
\* whose timer has not fired is one of them), and a slot is granted only in a state
\* where uploading is below the current limit; a fetch whose timer has fired stays
\* in flight without a slot.
C7_AdmissionWithinLimit ==
    /\ [](/\ uploadLimiter.uploading = Cardinality(Holders)
          /\ \A u \in InFlight : timerFired[u] \/ u \in Holders)
    /\ [][uploadLimiter'.uploading > uploadLimiter.uploading
            => /\ uploadLimiter.uploading < uploadLimiter.max
               /\ uploadLimiter'.uploading = uploadLimiter.uploading + 1
               /\ uploadLimiter'.max = uploadLimiter.max]_vars

\* more fetches are in flight than the limit allows, each slot holder admitted
\* within the limit
C7_Witness ==
    /\ Cardinality(InFlight) > uploadLimiter.max
    /\ uploadLimiter.uploading = uploadLimiter.max
    /\ \E u \in InFlight : timerFired[u]

\* ------------------------------------------------------------------ claims: UploadLimiter.recordUploadTime

\* the sum of the last three samples recorded so far
SumOfLast3(samples) ==
    samples[Len(samples) - 2] + samples[Len(samples) - 1] + samples[Len(samples)]

\* C8: when a sample is recorded, at least 3 samples exist, the average of the last
\* 3 exceeds 20000 ms (their sum exceeds 60000) and the flag is false, the flag
\* becomes true and the limit becomes fallbackConcurrency.
C8_EnterSlowMode ==
    [][( /\ Len(recorded') = Len(recorded) + 1
         /\ Len(recorded') >= 3
         /\ SumOfLast3(recorded') > 60000
         /\ ~uploadLimiter.slowConnectionDetected )
       => ( /\ uploadLimiter'.slowConnectionDetected
            /\ uploadLimiter'.max = uploadLimiter.fallbackConcurrency )]_vars

\* slow mode was entered on an average just above the mark (20000, 20000, 30000)
C8_Witness ==
    /\ recorded = <<20000, 20000, 20000, 30000>>
    /\ uploadLimiter.slowConnectionDetected
    /\ uploadLimiter.max = uploadLimiter.fallbackConcurrency

\* C9: while the flag is true, a recording that brings the average of the last 3
\* below 15000 ms (sum below 45000) clears the flag and sets the limit to
\* fallbackConcurrency + 1; one that leaves the average between 15000 and 20000 ms
\* inclusive (sum between 45000 and 60000) changes neither the flag nor the limit.
C9_LeaveSlowMode ==
    [][( /\ Len(recorded') = Len(recorded) + 1
         /\ uploadLimiter.slowConnectionDetected )
       => /\ SumOfLast3(recorded') < 45000
             => /\ ~uploadLimiter'.slowConnectionDetected
                /\ uploadLimiter'.max = uploadLimiter.fallbackConcurrency + 1
          /\ (SumOfLast3(recorded') >= 45000 /\ SumOfLast3(recorded') <= 60000)
             => /\ uploadLimiter'.slowConnectionDetected
                /\ uploadLimiter'.max = uploadLimiter.max]_vars

\* slow mode was entered, kept through an average inside the band (59998 / 3) and
\* left on the next low sample
C9_Witness ==
    /\ recorded = <<30000, 30000, 30000, 14999, 14999, 14999>>
    /\ ~uploadLimiter.slowConnectionDetected
    /\ uploadLimiter.max = uploadLimiter.fallbackConcurrency + 1

\* the samples recorded so far hold exactly one sample above 20000 ms and only
\* samples below 15000 ms besides it
SingleHighAmongLow ==
    /\ Cardinality({i \in 1..Len(recorded) : recorded[i] > 20000}) = 1
    /\ \A i \in 1..Len(recorded) : recorded[i] > 20000 \/ recorded[i] < 15000

\* C10 as stated: a single sample above 20000 ms among low samples never sets the
\* flag, whatever its magnitude.
C10_SingleHighNeverSlow ==
    SingleHighAmongLow => ~uploadLimiter.slowConnectionDetected

\* C10, amended: a single sample above 20000 ms and of at most 30000 ms among low
\* samples never sets the flag.
C10_SingleModerateHighNeverSlow ==
    ( /\ SingleHighAmongLow
      /\ \A i \in 1..Len(recorded) : recorded[i] <= 30000 )
    => ~uploadLimiter.slowConnectionDetected

\* a sample of 30000 ms between low samples has passed through the window of three
C10_Witness ==
    /\ recorded = <<14999, 30000, 14999, 14999, 14999>>
    /\ ~uploadLimiter.slowConnectionDetected

\* ------------------------------------------------------------------ claims: SimpleCircuitBreaker

\* the step is a call of the named method of circuitBreaker (time stands still in it)
BreakerCall(method) == lastCall' = method /\ now' = now

\* the breaker is open and its cooldown, counted from the last failure, is not over
InCooldown(cb, t) ==
    /\ cb.failures >= cb.threshold
    /\ cb.lastFailure # <<>>
    /\ t - cb.lastFailure[1] <= cb.cooldownMs

\* the breaker is open and more than its cooldown has passed since the last failure
CooldownOver(cb, t) ==
    /\ cb.failures >= cb.threshold
    /\ cb.lastFailure # <<>>
    /\ t - cb.lastFailure[1] > cb.cooldownMs

\* C11: every call of canProceed() returns false exactly when the failure counter is
\* at or above the threshold and at most cooldownMs have passed since the last
\* recorded failure; and whenever the counter is at or above the threshold a failure
\* has been recorded, so the time since the last failure is defined.
C11_FalseIffOpenInCooldown ==
    [][/\ BreakerCall("canProceed") =>
            (canProceedResult' = <<FALSE>> <=> InCooldown(circuitBreaker, now))
       /\ BreakerCall("recordFailure") =>
            (circuitBreaker.failures + 1 >= circuitBreaker.threshold
                => InCooldown(circuitBreaker', now'))]_vars

\* a canProceed() made exactly cooldownMs after the failure that opened the breaker
\* was refused
C11_Witness ==
    /\ lastCall = "canProceed"
    /\ canProceedResult = <<FALSE>>
    /\ circuitBreaker.failures = circuitBreaker.threshold
    /\ circuitBreaker.lastFailure # <<>>
    /\ now - circuitBreaker.lastFailure[1] = circuitBreaker.cooldownMs

\* C12: a canProceed() made while the breaker is open and more than cooldownMs after
\* the last failure returns true and sets the failure counter to 0; and the counter
\* only grows by one per step, so the threshold is reached again only by threshold
\* new failures.
C12_SelfHealing ==
    [][/\ (BreakerCall("canProceed") /\ CooldownOver(circuitBreaker, now)) =>
            /\ canProceedResult' = <<TRUE>>
            /\ circuitBreaker'.failures = 0
            /\ circuitBreaker'.totalBreaks = circuitBreaker.totalBreaks
       /\ circuitBreaker'.failures <= circuitBreaker.failures + 1
       /\ circuitBreaker'.failures = circuitBreaker.failures + 1
            => BreakerCall("recordFailure")]_vars

\* the breaker had opened, and a canProceed() made more than cooldownMs after the
\* last failure has answered true, with the counter at 0
C12_Witness ==
    /\ lastCall = "canProceed"
    /\ canProceedResult = <<TRUE>>
    /\ circuitBreaker.failures = 0
    /\ circuitBreaker.totalBreaks >= 1
    /\ circuitBreaker.lastFailure # <<>>
    /\ now - circuitBreaker.lastFailure[1] > circuitBreaker.cooldownMs

\* C13: every call of recordSuccess() leaves the failure counter at 0 and totalBreaks,
\* threshold and cooldownMs as they were, and the canProceed() that follows a
\* recordSuccess(), however much later, returns true.
C13_SuccessResets ==
    [][/\ BreakerCall("recordSuccess") =>
            /\ circuitBreaker'.failures = 0
            /\ circuitBreaker'.totalBreaks = circuitBreaker.totalBreaks
            /\ circuitBreaker'.threshold = circuitBreaker.threshold
            /\ circuitBreaker'.cooldownMs = circuitBreaker.cooldownMs
       /\ (lastCall = "recordSuccess" /\ BreakerCall("canProceed")) =>
            canProceedResult' = <<TRUE>>]_vars

\* the breaker had opened, and inside the cooldown window a recordSuccess() and then
\* a canProceed() that returned true were made
C13_Witness ==
    /\ lastCall = "canProceed"
    /\ canProceedResult = <<TRUE>>
    /\ circuitBreaker.failures = 0
    /\ circuitBreaker.totalBreaks >= 1
    /\ circuitBreaker.lastFailure # <<>>
    /\ now - circuitBreaker.lastFailure[1] <= circuitBreaker.cooldownMs

\* C14: totalBreaks grows by exactly 1 in a step that takes the failure counter from
\* below the threshold to the threshold, and by nothing in every other step.
C14_BreakCountedOnce ==
    [][circuitBreaker'.totalBreaks =
          circuitBreaker.totalBreaks
          + (IF ~isOpen(circuitBreaker) /\ isOpen(circuitBreaker') THEN 1 ELSE 0)]_vars

\* ------------------------------------------------------------------ claims: RateLimiter

\* C15: in every reachable state the tokens of the limiter lie between 0 and its
\* capacity (the model counts them in units of 1/60000 token).
C15_TokensWithinCapacity ==
    /\ geminiLimiter.tokens >= 0
    /\ geminiLimiter.tokens <= geminiLimiter.rpm * 60000

\* time has passed, calls have slept and every sleeper has woken and set tokens to 0
C15_Witness ==
    /\ geminiLimiter.totalWaitTime > 0
    /\ \A a \in Acquires : acqPc[a] = "done"
    /\ geminiLimiter.tokens = 0
    /\ now > 0

\* C16: of the acquire() calls made while no time has passed since the limiter was
\* built, each of the first C returns without sleeping and the (C+1)-th starts a sleep
\* of 60000/C ms; and a sleeping call never returns before its sleep is over.
C16_BurstThenWait ==
    [][\A a \in Acquires :
          /\ (acqPc[a] = "idle" /\ acqPc'[a] # "idle" /\ now = 0) =>
                /\ a <= geminiLimiter.rpm => acqPc'[a] = "done"
                /\ a = geminiLimiter.rpm + 1 =>
                      /\ acqPc'[a] = "sleeping"
                      /\ wakeAt'[a] * geminiLimiter.rpm = 60000
          /\ (acqPc[a] = "sleeping" /\ acqPc'[a] = "done") => now >= wakeAt[a]]_vars

\* with capacity 10, ten calls returned at once and the eleventh slept 6000 ms
C16_Witness ==
    /\ geminiLimiter.rpm = 10
    /\ geminiLimiter.totalRequests = 11
    /\ geminiLimiter.totalWaitTime = 6000
    /\ acqPc[11] = "done"
    /\ now >= 6000

\* C17: the tokens credited since the limiter was built, at time 0, never exceed
\* capacity * now / 60000 (both sides are counted in units of 1/60000 token).
C17_CreditWithinRate == credited <= geminiLimiter.rpm * now

\* ------------------------------------------------------------------ claims: processPrompt

\* the processPrompt call has returned
Returned == pp.pc = "returned" /\ Len(pp.result) = 1

\* the record of the call has Generated Images
HasArtifacts == pp.pc # "idle" /\ promptRecord.existingImages

\* C18 (as stated): a call for a record that already has images never calls
\* generate, generateVideo or the vision analysis, and what it returns is a success.
C18_SkipCallsNoProvider ==
    HasArtifacts =>
        /\ pp.generate = 0 /\ pp.generateVideo = 0 /\ pp.analyze = 0
        /\ Returned => pp.result[1].success

\* C18 (amended): a call for a record that already has images, let through by the
\* breaker, never calls generate or the vision analysis; with video generation
\* disabled it calls no provider at all and has returned a success; with video
\* generation enabled it calls generateVideo, once or twice.
C18_SkipCallsNoImageProvider ==
    (HasArtifacts /\ canProceedResult = <<TRUE>>) =>
        /\ pp.generate = 0 /\ pp.analyze = 0
        /\ ~genConfig.enableVideo =>
              pp.generateVideo = 0 /\ Returned /\ pp.result[1].success
        /\ genConfig.enableVideo => pp.generateVideo \in {1, 2}

\* with video generation enabled, a call for a record that already has images has
\* called generateVideo twice and returned a success
C18_Witness ==
    /\ HasArtifacts
    /\ Returned
    /\ pp.result[1].success
    /\ genConfig.enableVideo
    /\ pp.generateVideo = 2
    /\ pp.generate = 0

\* C19: when a call for a record that already has images has returned, the failure
\* counter, the last-failure time and totalBreaks of the breaker are what they were
\* when the call was made.
C19_SkipLeavesBreaker ==
    (HasArtifacts /\ Returned) =>
        /\ circuitBreaker.failures = breakerBefore.failures
        /\ circuitBreaker.lastFailure = breakerBefore.lastFailure
        /\ circuitBreaker.totalBreaks = breakerBefore.totalBreaks

\* C20: a call whose canProceed() returned false has returned, with a result that is
\* not a success and has skipErrorSave set, having called no provider, started no
\* attempt, slept no delay, written nothing to the store, called neither
\* recordFailure() nor recordSuccess(), and left the breaker as it was.
C20_DeferredWhenOpen ==
    canProceedResult = <<FALSE>> =>
        /\ Returned
        /\ pp.result[1].success = FALSE
        /\ pp.result[1].skipErrorSave = TRUE
        /\ pp.generate = 0 /\ pp.generateVideo = 0 /\ pp.analyze = 0
        /\ pp.attempt = 0
        /\ pp.sleeps = <<>>
        /\ pp.updates = <<>>
        /\ pp.recordFailure = 0 /\ pp.recordSuccess = 0
        /\ circuitBreaker = breakerBefore

\* a call made 30000 ms after the fifth failure in a row was deferred
C20_Witness ==
    /\ canProceedResult = <<FALSE>>
    /\ Returned
    /\ breakerBefore.failures = 5
    /\ now = 30000

\* ------------------------------------------------------------------ claims: the generation loop

\* the message of a failed request to the image provider with the status
FalError(status) == <<"FAL", "API", "error", status>>

\* this step is api.generate() throwing; the message is then pp'.lastError
GenerateThrew == pp.pc = "generate" /\ pp'.pc \notin {"generate", "download"}

\* the call has the message in its outer catch: returned by the transient branch, or
\* held by the other branch while the Error Message is written
InOuterCatch(call, message) ==
    \/ /\ call.pc = "returned"
       /\ call.result = <<[success |-> FALSE, error |-> message, skipErrorSave |-> TRUE]>>
    \/ call.pc = "saveError" /\ call.caught = message

\* C21: api.generate() is never called a 4th time for a job; an attempt that fails
\* with a retryable error is followed by a backoff and exactly one more call while
\* fewer than 3 calls were made, and at the 3rd call the error goes to the outer
\* catch with the count of calls left at 3.
C21_RetryBudget ==
    /\ [](pp.generate <= 3)
    /\ [][GenerateThrew /\ isRetryable(pp'.lastError) =>
              IF pp.generate < 3
              THEN pp'.pc = "backoff" /\ pp'.generate = pp.generate
              ELSE /\ pp.generate = 3 /\ pp'.generate = 3
                   /\ InOuterCatch(pp', pp'.lastError)]_vars
    /\ [][pp.pc = "backoff" /\ pp'.pc # "backoff" =>
              pp'.pc = "generate" /\ pp'.generate = pp.generate + 1]_vars
    /\ [][pp.pc \in {"returned", "saveError"} => pp'.generate = pp.generate]_vars

\* three attempts failed with a 503: three calls were made and the call returned
C21_Witness ==
    /\ Returned
    /\ pp.generate = 3
    /\ pp.sleeps = <<1000, 2000>>
    /\ pp.lastError = FalError("503")
    /\ pp.result[1].error = FalError("503")

\* the generation loop gave up on a retryable error after its 3rd call: the error
\* is in the outer catch (lastError is only kept while the loop's block is not left)
GenerationGaveUp ==
    /\ pp.generate = 3
    /\ pp.lastError # <<>>
    /\ isRetryable(pp.lastError)
    /\ InOuterCatch(pp, pp.lastError)

\* C22, as claimed: when the generation loop gives up after three retryable
\* failures, the delays slept were 1000, 2000 and 4000 ms, in that order.
C22_ThreeDelays == GenerationGaveUp => pp.sleeps = <<1000, 2000, 4000>>

\* C22, amended: the delays slept by the generation loop are 1000 ms after the 1st
\* failed call and 2000 ms after the 2nd, one delay per retry; when the loop gives
\* up after three retryable failures exactly these two were slept, and 4000 ms is
\* never slept.
C22_TwoDelays ==
    /\ pp.pc = "generate" => pp.sleeps = SubSeq(<<1000, 2000>>, 1, pp.generate - 1)
    /\ pp.pc = "backoff" => pp.sleeps = SubSeq(<<1000, 2000>>, 1, pp.generate)
    /\ GenerationGaveUp => pp.sleeps = <<1000, 2000>>
    /\ \A i \in 1..Len(pp.sleeps) : pp.sleeps[i] # 4000

\* three attempts failed, the last with a 502: two delays were slept
C22_Witness ==
    /\ GenerationGaveUp
    /\ Returned
    /\ pp.lastError = FalError("502")
    /\ Len(pp.sleeps) = 2

\* the message names one of the statuses
HasStatus(message, statuses) == \E i \in 1..Len(message) : message[i] \in statuses

\* the message has the word timeout, in any case
MentionsTimeout(message) ==
    \E i \in 1..Len(message) : LowerCaseWord(message[i]) = "timeout"

\* the failures section 4.5 step 4 calls retryable: the gateway-timeout code, a
\* timeout, or a 5xx status
RetryableAsSpecified(message) ==
    \/ HasStatus(message, {"524"})
    \/ MentionsTimeout(message)
    \/ HasStatus(message, {"500", "502", "503", "504"})

\* C23: when api.generate() fails with an error that is not retryable (a 400, for
\* one), the error is in the outer catch at once, with no further call of
\* api.generate() and no sleep, then or later in the job.
C23_NonRetryableAborts ==
    /\ [][GenerateThrew /\ ~RetryableAsSpecified(pp'.lastError) =>
              /\ InOuterCatch(pp', pp'.lastError)
              /\ pp'.generate = pp.generate
              /\ pp'.sleeps = pp.sleeps]_vars
    /\ [][pp.pc \in {"saveError", "returned"} =>
              pp'.generate = pp.generate /\ pp'.sleeps = pp.sleeps]_vars

\* the first attempt failed with a 400: one call, no sleep, the error in the outer catch
C23_Witness ==
    /\ pp.pc = "saveError"
    /\ pp.caught = FalError("400")
    /\ pp.lastError = FalError("400")
    /\ pp.generate = 1
    /\ pp.sleeps = <<>>

\* C24, as claimed: a failure of api.generate() before the 3rd call is retried (a
\* backoff follows) if and only if it is a 524, a timeout or any 5xx status, a 500
\* included.
C24_RetriedIffSpecified ==
    [][GenerateThrew /\ pp.generate < 3 =>
           (pp'.pc = "backoff" <=> RetryableAsSpecified(pp'.lastError))]_vars

\* ------------------------------------------------------------------ claims: the outcome of a job

\* the writes of the job's Error Message that the store accepted, in order
ErrorWrites(call) ==
    SelectSeq(call.updates, LAMBDA u : u.ok /\ "Error Message" \in u.fields)

\* what the call made of the job's Error Message: <<>> if it did not write it,
\* << <<>> >> if it cleared it, <<m>> if it left the message m
ErrorField(call) ==
    IF ErrorWrites(call) = <<>> THEN <<>>
    ELSE ErrorWrites(call)[Len(ErrorWrites(call))].errorMessage

\* the store accepted a write of the job's images
ImagesSaved(call) ==
    \E i \in 1..Len(call.updates) :
        call.updates[i].ok /\ "Generated Images" \in call.updates[i].fields

\* every write the call made was accepted and none left an error text
NothingElseFailed(call) ==
    \A i \in 1..Len(call.updates) :
        call.updates[i].ok /\ call.updates[i].errorMessage \in {<<>>, << <<>> >>}

\* the delays slept by the generation loop (the video loop sleeps 5000 ms)
GenerationDelays(call) == SelectSeq(call.sleeps, LAMBDA d : d # 5000)

\* C25: a job without artifacts and without reference image, whose first
\* api.generate() call failed with a 503 and whose second returned: when the store
\* accepts the write of the images, that write carries the image URLs and clears the
\* Error Message, one delay of 1000 ms was slept, and without video the call
\* returns success with recordSuccess() called once and recordFailure() never.  A
\* call that returns after a second attempt that succeeded, with nothing else
\* failing (the video stage included), returns success, with the Error Message
\* cleared, recordSuccess() called once, recordFailure() never and one delay of
\* 1000 ms slept by the generation loop.
C25_SuccessOnSecondAttempt ==
    /\ [][/\ pp.pc = "saveImages" /\ pp.generate = 2
          /\ pp.lastError = FalError("503")
          /\ ~promptRecord.existingImages /\ ~promptRecord.promptImage
          /\ Len(pp'.updates) = 1 /\ pp'.updates[1].ok
          => /\ pp'.updates[1].fields = {"Generated Images", "Error Message"}
             /\ ErrorField(pp') = << <<>> >>
             /\ pp'.sleeps = <<1000>>
             /\ pp'.recordFailure = 0
             /\ IF genConfig.enableVideo
                THEN pp'.pc = "video" /\ pp'.generateVideo = 1
                ELSE /\ pp'.pc = "returned"
                     /\ pp'.result = <<[success |-> TRUE, error |-> <<>>,
                                        skipErrorSave |-> FALSE]>>
                     /\ pp'.recordSuccess = 1]_vars
    /\ [](/\ Returned /\ pp.generate = 2 /\ ImagesSaved(pp) /\ NothingElseFailed(pp)
          /\ ~promptRecord.existingImages /\ ~promptRecord.promptImage
          => /\ pp.result[1].success
             /\ ErrorField(pp) = << <<>> >>
             /\ pp.recordSuccess = 1 /\ pp.recordFailure = 0
             /\ lastCall = "recordSuccess"
             /\ circuitBreaker.failures = 0
             /\ GenerationDelays(pp) = <<1000>>
             /\ progressTracker.successCount = 1)

\* a job without artifacts or reference image succeeded on the second attempt,
\* after a retryable failure and its 1000 ms delay, and returned success
C25_Witness ==
    /\ Returned /\ pp.result[1].success
    /\ ~promptRecord.existingImages /\ ~promptRecord.promptImage
    /\ pp.generate = 2
    /\ pp.sleeps = <<1000>>
    /\ pp.updates = <<[fields |-> {"Generated Images", "Error Message"},
                       errorMessage |-> << <<>> >>, ok |-> TRUE]>>
    /\ pp.recordSuccess = 1 /\ pp.recordFailure = 0
    /\ breakerBefore.failures = 4 /\ circuitBreaker.failures = 0

\* C26, as claimed: when api.generate() fails with a 429 "too many requests", the
\* call returns at once as a transient failure: no Error Message is written,
\* recordFailure() is not called and the breaker is as before, and the job is
\* counted as failed.
C26_ThrottlingTransient ==
    [][GenerateThrew /\ HasStatus(pp'.lastError, {"429"}) =>
           /\ pp'.pc = "returned"
           /\ pp'.result = <<[success |-> FALSE, error |-> pp'.lastError,
                              skipErrorSave |-> TRUE]>>
           /\ pp'.updates = pp.updates
           /\ pp'.recordFailure = pp.recordFailure
           /\ circuitBreaker' = circuitBreaker
           /\ progressTracker'.failCount = progressTracker.failCount + 1]_vars

\* this step takes an error to the outer catch; OuterCaught is then its message
EntersOuterCatch ==
    /\ pp.pc \notin {"idle", "saveError", "returned"}
    /\ \/ pp'.pc = "saveError"
       \/ pp'.pc = "returned" /\ ~pp'.result[1].success

\* the message the outer catch of the call holds or has returned
OuterCaught(call) == IF call.pc = "saveError" THEN call.caught ELSE call.result[1].error

\* the errors C27 lists as transient: 524, timeout, 502/503/504, or the rate-limit
\* signal of the intermediary
TransientAsListed(message) ==
    \/ HasStatus(message, {"524", "502", "503", "504"})
    \/ MentionsTimeout(message)
    \/ includes(toLowerCase(message), <<"too", "many", "subrequests">>)

\* the call returned from the transient branch of the outer catch
ReturnedTransient ==
    /\ Returned
    /\ ~pp.result[1].success /\ pp.result[1].skipErrorSave
    /\ pp.result[1] # DeferredResult

\* C27: when the error that reaches the outer catch is transient, the call returns
\* in the same step without writing to the store, without recordFailure() or
\* recordSuccess() (the breaker is as it was), and with the job counted as failed;
\* a call that returned this way has never called recordFailure() or
\* recordSuccess() and has left no error text in the job's Error Message.
C27_TransientFailure ==
    /\ [][EntersOuterCatch /\ TransientAsListed(OuterCaught(pp')) =>
              /\ pp'.pc = "returned"
              /\ pp'.result = <<[success |-> FALSE, error |-> OuterCaught(pp'),
                                 skipErrorSave |-> TRUE]>>
              /\ ErrorWrites(pp') = ErrorWrites(pp)
              /\ circuitBreaker' = circuitBreaker
              /\ pp'.recordFailure = pp.recordFailure
              /\ pp'.recordSuccess = pp.recordSuccess
              /\ progressTracker'.failCount = progressTracker.failCount + 1
              /\ progressTracker'.processedPrompts = progressTracker.processedPrompts + 1
              /\ progressTracker'.successCount = progressTracker.successCount]_vars
    /\ [](ReturnedTransient =>
              /\ TransientAsListed(pp.result[1].error)
              /\ pp.recordFailure = 0 /\ pp.recordSuccess = 0
              /\ lastCall = "canProceed"
              /\ ErrorField(pp) \in {<<>>, << <<>> >>}
              /\ progressTracker.failCount = 1)

\* the intermediary's rate-limit error ended a job with the breaker one failure
\* from opening: the breaker is as before and the job is counted as failed
C27_Witness ==
    /\ ReturnedTransient
    /\ pp.result[1].error = <<"Too", "many", "subrequests">>
    /\ pp.generate = 1
    /\ pp.updates = <<>>
    /\ breakerBefore.failures = 4 /\ circuitBreaker = breakerBefore
    /\ progressTracker.failCount = 1

\* the first n characters of the message, or all of it if it has fewer
FirstChars(message, n) ==
    [i \in 1..(IF Len(message) < n THEN Len(message) ELSE n) |-> message[i]]

\* the last updateAirtableRecord call of the call
LastUpdate(call) == call.updates[Len(call.updates)]

\* the call returned from the permanent branch of the outer catch
ReturnedPermanent ==
    Returned /\ ~pp.result[1].success /\ ~pp.result[1].skipErrorSave

\* C28: when the error that reaches the outer catch is not transient,
\* recordFailure() is called in the same step, once; the error text cut to 200
\* characters is then given to the store as the job's Error Message, and whether
\* the store accepts or fails that write the call returns a failure with the
\* job counted as failed, and recordFailure() was called exactly once for the job.
C28_PermanentFailure ==
    /\ [][EntersOuterCatch /\ ~TransientAsListed(OuterCaught(pp')) =>
              /\ pp'.pc = "saveError"
              /\ pp'.recordFailure = pp.recordFailure + 1
              /\ lastCall' = "recordFailure"
              /\ circuitBreaker'.failures = circuitBreaker.failures + 1
              /\ progressTracker' = progressTracker]_vars
    /\ [][pp.pc = "saveError" /\ pp'.pc # "saveError" =>
              /\ pp'.pc = "returned"
              /\ pp'.result = <<[success |-> FALSE, error |-> pp.caught,
                                 skipErrorSave |-> FALSE]>>
              /\ Len(pp'.updates) = Len(pp.updates) + 1
              /\ LastUpdate(pp').fields = {"Error Message"}
              /\ LastUpdate(pp').errorMessage = <<FirstChars(pp.caught, 200)>>
              /\ circuitBreaker' = circuitBreaker
              /\ pp'.recordFailure = pp.recordFailure
              /\ progressTracker'.failCount = progressTracker.failCount + 1
              /\ progressTracker'.successCount = progressTracker.successCount]_vars
    /\ [](ReturnedPermanent =>
              /\ ~TransientAsListed(pp.result[1].error)
              /\ pp.recordFailure = 1 /\ pp.recordSuccess = 0
              /\ progressTracker.failCount = 1
              /\ Len(LastUpdate(pp).errorMessage[1]) <= 200
              /\ LastUpdate(pp).ok => ErrorField(pp) = <<FirstChars(pp.result[1].error, 200)>>)

\* a 400 with an error text of 200 characters ended a job: the message of 204 was
\* cut to 200 for the Error Message, recordFailure() was called once
C28_Witness ==
    /\ ReturnedPermanent
    /\ pp.result[1].error = FalError("400") \o LongErrorText
    /\ Len(pp.result[1].error) = 204
    /\ LastUpdate(pp).ok
    /\ ErrorField(pp) = <<FalError("400") \o SubSeq(LongErrorText, 1, 196)>>
    /\ pp.recordFailure = 1
    /\ circuitBreaker.failures = breakerBefore.failures + 1
    /\ progressTracker.failCount = 1

\* ------------------------------------------------------------------ claims: the video stage

\* the video stage of the call failed: catch (videoError) gave its message to the
\* store, whatever the store made of it
VideoFailed(call) ==
    \E i \in 1..Len(call.updates) :
        /\ call.updates[i].fields = {"Error Message"}
        /\ Len(call.updates[i].errorMessage[1]) >= 3
        /\ SubSeq(call.updates[i].errorMessage[1], 1, 3) = <<"Video", "generation", "failed">>

\* C29, as claimed: a call whose video stage failed, in whatever way, returns
\* success, with recordSuccess() called and recordFailure() not.
C29_VideoFailureIsolated ==
    Returned /\ VideoFailed(pp) =>
        /\ pp.result[1].success
        /\ pp.recordSuccess = 1
        /\ pp.recordFailure = 0

\* this step is api.generateVideo() throwing; VideoThrown is then its message
VideoThrew == pp.pc = "video" /\ pp'.pc \in {"videoBackoff", "saveVideoError"}

\* the message api.generateVideo() threw in the step to this call: kept in
\* lastVideoError for the retry, otherwise behind 'Video generation failed' in the
\* message of catch (videoError)
VideoThrown(call) ==
    IF call.pc = "videoBackoff" THEN call.lastVideoError
    ELSE SubSeq(call.caught, 4, Len(call.caught))

\* C30: api.generateVideo() is called at most twice per job; its failure is
\* followed by a retry exactly when it is the first call's and the error is a 524
\* or a timeout (a 502, 503 or 504 as such is not retried); the second call is made
\* only from that retry, 5000 ms later.
C30_VideoRetryPolicy ==
    /\ [](pp.generateVideo <= 2)
    /\ [][VideoThrew =>
              (pp'.pc = "videoBackoff" <=>
                   /\ pp.generateVideo = 1
                   /\ \/ HasStatus(VideoThrown(pp'), {"524"})
                      \/ MentionsTimeout(VideoThrown(pp')))]_vars
    /\ [][VideoThrew /\ pp'.pc = "videoBackoff" =>
              pp'.sleeps = Append(pp.sleeps, 5000) /\ pp'.generateVideo = 1]_vars
    /\ [][pp'.generateVideo # pp.generateVideo /\ pp.pc # "idle" =>
              IF pp.generateVideo = 0 THEN pp'.generateVideo = 1
              ELSE /\ pp.pc = "videoBackoff"
                   /\ pp'.pc = "video" /\ pp'.generateVideo = 2
                   /\ now' = now + 5000]_vars
    /\ [][VideoThrew /\ VideoThrown(pp') \in {<<"FAL", "Video", "API", "error", "502">>,
                                               <<"FAL", "Video", "API", "error", "503">>,
                                               <<"FAL", "Video", "API", "error", "504">>}
              => pp'.pc = "saveVideoError" /\ pp'.sleeps = pp.sleeps]_vars

\* the second call of api.generateVideo() is in progress, 5000 ms after a 524
C30_Witness ==
    /\ pp.pc = "video"
    /\ pp.generateVideo = 2
    /\ pp.lastVideoError = <<"FAL", "Video", "API", "error", "524">>
    /\ Len(pp.sleeps) > 0 /\ pp.sleeps[Len(pp.sleeps)] = 5000

\* ------------------------------------------------------------------ claims: the run

\* the positions of a processPrompt call that waits for a provider, the store or a
\* timer
Awaiting ==
    {"acquireSleep", "analyze", "fetchImage", "savePrompt", "generate", "backoff",
     "download", "saveImages", "video", "videoBackoff", "downloadVideo", "saveVideo",
     "saveVideoError", "saveError"}

\* the result objects processPrompt returns
ResultObjects ==
    {r \in [success : BOOLEAN, error : {<<>>} \cup {pp.result[i].error : i \in 1..Len(pp.result)},
            skipErrorSave : BOOLEAN] : r.success <=> r.error = <<>>}

\* C31: whatever the providers and the store answer, a processPrompt call is never
\* left by an exception: it is idle, waiting for an answer, or has returned a
\* result object; and once called it does return.
C31_NeverThrows ==
    /\ [](pp.pc \in {"idle", "returned"} \cup Awaiting)
    /\ [](pp.pc = "returned" <=> pp.result # <<>>)
    /\ [](pp.pc = "returned" => pp.result[1] \in ResultObjects)
    /\ (pp.pc # "idle") ~> (pp.pc = "returned")

\* the generation failed with a 400 and the store refused the error text as well:
\* the call returned its failure
C31_Witness ==
    /\ Returned
    /\ pp.result[1].error = FalError("400")
    /\ pp.updates = <<[fields |-> {"Error Message"},
                       errorMessage |-> <<FalError("400")>>, ok |-> FALSE]>>

\* the acquire() calls suspended in sleep(waitTime)
Suspended == {a \in Acquires : acqPc[a] = "sleeping"}

\* the distance between two instants
Apart(t1, t2) == IF t1 >= t2 THEN t1 - t2 ELSE t2 - t1

\* C35: the grants of two acquire() calls that are suspended at the same time are
\* at least 60000/capacity ms apart: their timers are due at least one refill
\* interval from each other.
C35_GrantsSerialized ==
    \A a, b \in Suspended :
        a # b => Apart(wakeAt[a], wakeAt[b]) >= TokenUnit \div geminiLimiter.rpm

\* C36: a downgrade to slow mode followed by a restore gives the limit back the
\* value it had before the downgrade.  Every limiter of UploadConfigs is built with
\* maxUpload = 3, so outside slow mode the limit is 3, whatever was recorded.
C36_LimitRoundTrip ==
    ~uploadLimiter.slowConnectionDetected => uploadLimiter.max = 3

\* C37: after any sequence of recordUploadTime calls the history holds at most 10
\* samples, and they are the most recently recorded ones, in the order they were
\* recorded.
C37_HistoryMostRecent ==
    /\ Len(uploadLimiter.recentUploadTimes) <= 10
    /\ uploadLimiter.recentUploadTimes = LastN(recorded, 10)

\* twelve samples were recorded, the first a slow one and the last a fast one: the
\* first two were evicted
C37_Witness ==
    /\ Len(recorded) = 12
    /\ recorded[1] = 30000
    /\ recorded[12] = 14999
    /\ uploadLimiter.recentUploadTimes = SubSeq(recorded, 3, 12)

\* C38: with the ConcurrencyLimiter of limit 2 and the UploadLimiter of limit 3 and
\* fallback 2, uploading <= running <= 2 in every reachable state, and no request
\* ever waits for an upload slot: the UploadLimiter queue stays empty, in normal
\* and in slow mode.
C38_UploadGateNeverWaits ==
    /\ uploadLimiter.uploading <= concurrencyLimiter.running
    /\ concurrencyLimiter.running <= 2
    /\ uploadLimiter.queue = <<>>
    /\ \A u \in Uploads : upPc[u] \notin {"waiting", "woken"}

\* in slow mode, with the limit at the fallback of 2, two jobs run and hold an
\* upload slot each, one of them for its second request, while a third job waits
\* for the concurrency gate
C38_Witness ==
    /\ uploadLimiter.slowConnectionDetected
    /\ uploadLimiter.max = 2
    /\ uploadLimiter.uploading = 2
    /\ concurrencyLimiter.running = 2
    /\ Len(concurrencyLimiter.queue) = 1
    /\ upPc = [u \in Uploads |-> IF u = 1 THEN "failed"
                                 ELSE IF u \in {2, 3} THEN "fetching" ELSE "idle"]

\* C39: in every reachable state getStats().isOpen is true exactly when a
\* canProceed() call made in that state would return false.
C39_IsOpenAgreesWithAdmission ==
    isOpen(circuitBreaker) <=> ~canProceed(circuitBreaker, now).result

\* ------------------------------------------------------------------ claims: the run trigger

\* the child processes that are running
Alive == {c \in Children : processor[c] = "alive"}

\* C34: at most one batch-processor child is alive at any time, and isRunning is
\* true whenever a child is alive, for every interleaving of the requests with the
\* close and error events of the children.
C34_OneChildAtATime ==
    /\ Cardinality(Alive) <= 1
    /\ Alive # {} => processingState.isRunning

\* ------------------------------------------------------------------ claims: the paging loop

\* this step ends the processing of a page
PageDone == main.pc = "processing" /\ main'.pc # "processing"

\* this step is the arrival of a page without records
EmptyPageArrives == main.pc = "fetching" /\ backlog = {} /\ main'.pc # "threw"

\* C32: after processing a page the driver fetches another page if and only if the
\* page held exactly the page size of jobs, and stops if it held fewer; a page is
\* never larger than the page size; when a page returns no job the driver stops
\* and processes nothing.
C32_StopCondition ==
    [][ /\ PageDone =>
              /\ Len(main.prompts) \in 1..batchSize
              /\ main'.pc = "fetching" <=> Len(main.prompts) = batchSize
              /\ main'.pc = "exited" <=> Len(main.prompts) < batchSize
        /\ EmptyPageArrives =>
              /\ main' = [main EXCEPT !.pc = "exited"]
              /\ UNCHANGED <<concurrencyLimiter, circuitBreaker, progressTracker,
                             backlog>> ]_vars

\* a full page was processed, then a page of one record, and the driver stopped
C32_Witness ==
    /\ main.pc = "exited"
    /\ main.totalProcessed = 3
    /\ concurrencyLimiter.totalExecuted = 3
    /\ backlog = {}

\* the run is over: main() has left the loop and printed the summary, or has thrown
RunEnded == main.pc \in {"exited", "threw"}

\* C33: whatever the backlog, when the store and the providers always answer, the
\* paging loop is eventually left and the run ends.
C33_RunEnds == <>RunEnded

====
